---- MODULE Spec2Model ----
(***************************************************************************)
(* Authentication resolution core of student_history.                      *)
(*                                                                         *)
(* The tables students, telegram_auth and access_tokens are the database;  *)
(* every request handler runs to completion on the event loop, so a        *)
(* handler is one action.  `resp` is the response of the request being     *)
(* answered; Return closes the request (get_db_session's finally block).   *)
(*                                                                         *)
(* Time is counted in units of 3600 s, so that the replay window           *)
(* max_age = 3600 s is one unit.  The rate limiter works on a finer clock, *)
(* counted in units of 30 s.                                               *)
(***************************************************************************)
EXTENDS Integers, Sequences, FiniteSets, TLC

VARIABLES now, students, telegram_auth, access_tokens, resp,
          pending_links, access_logs,
          clock, requests, swept_at, admitted, checked,
          sessions, jar, login_rate_limiter, sheets_manager, unswept

(* The rate limiter: its clock, the dict self.requests, the time of the
   last sweep of _cleanup_loop, and two records of what happened: the
   admitted calls of the current window and the outcome of the last call.
   unswept is self.requests of a RateLimiter that receives the same calls
   at the same times and whose _cleanup_loop never runs. *)
limiter_vars == <<clock, requests, swept_at, admitted, checked,
                  login_rate_limiter, unswept>>

(* What the resolver, the token operations and the operator's operations on
   links leave alone. *)
aux_vars == <<pending_links, access_logs,
              clock, requests, swept_at, admitted, checked, sessions, jar,
              login_rate_limiter, sheets_manager, unswept>>

(* The database tables, the wall clock of the resolver and the response.
   pending_links is the table pending_telegram_links, access_logs the table
   access_logs in insertion order.  sessions holds the database sessions of
   the token calls that are followed statement by statement. *)
core_vars == <<now, students, telegram_auth, access_tokens, resp,
               pending_links, access_logs, sessions, jar, sheets_manager>>

vars == <<now, students, telegram_auth, access_tokens, resp,
          pending_links, access_logs,
          clock, requests, swept_at, admitted, checked, sessions, jar,
          login_rate_limiter, sheets_manager, unswept>>

----------------------------------------------------------------------------
(* Bounds of the model *)

NStudents == 2
MaxTime == 2
MaxAuthId == 2
MaxClock == 4
requests_per_minute == 2
login_requests_per_minute == 1
MaxSheetsTime == 2
MaxLogs == 2
MaxTokens == 2
NSessions == 2

(* Program constants *)

max_age == 1
window == 2
sweep_window == 4
cleanup_interval == 2

----------------------------------------------------------------------------
(* Optional values: Python None is the empty tuple, a value v is <<v>>. *)

None == <<>>
Some(v) == <<v>>

StudentIds == 1..NStudents
TelegramIds == {"555"}
bot_token == "bot-secret"

(* A str is falsy when it is None or empty. *)
TruthyStr(o) == o # None /\ o[1] # ""

----------------------------------------------------------------------------
(* Strings that are parsed as integers are sequences of characters. *)

DecimalChars == {"0", "1", "2", "3", "4", "5", "6", "7", "8", "9"}
SuperscriptChars == {"sup2"}

DigitValue(c) ==
    CASE c = "0" -> 0 [] c = "1" -> 1 [] c = "2" -> 2 [] c = "3" -> 3
      [] c = "4" -> 4 [] c = "5" -> 5 [] c = "6" -> 6 [] c = "7" -> 7
      [] c = "8" -> 8 [] c = "9" -> 9

DigitChar(n) ==
    CASE n = 0 -> "0" [] n = 1 -> "1" [] n = 2 -> "2" [] n = 3 -> "3"
      [] n = 4 -> "4" [] n = 5 -> "5" [] n = 6 -> "6" [] n = 7 -> "7"
      [] n = 8 -> "8" [] n = 9 -> "9"

(* str(n) for 0 <= n <= 9 *)
str(n) == <<DigitChar(n)>>

(* str.isdigit(): non-empty and every character has the Unicode property
   Digit, which holds of the decimal digits and of the superscript digits. *)
isdigit(s) ==
    /\ Len(s) > 0
    /\ \A i \in 1..Len(s) : s[i] \in DecimalChars \cup SuperscriptChars

RECURSIVE DecimalValue(_)
DecimalValue(s) ==
    IF Len(s) = 0 THEN 0
    ELSE 10 * DecimalValue(SubSeq(s, 1, Len(s) - 1)) + DigitValue(s[Len(s)])

(* int(s): None stands for ValueError. *)
int(s) ==
    IF Len(s) > 0 /\ \A i \in 1..Len(s) : s[i] \in DecimalChars
    THEN Some(DecimalValue(s))
    ELSE None

----------------------------------------------------------------------------
(* Signed payload (Telegram initData) *)

(* initData is a query string: the sequence of its key=value pairs in wire
   order.  A pair is <<key, value>>; the value is None when it is the empty
   string, else Some(v).  The value of auth_date is a sequence of
   characters, the value of user a JSON text, given by whether json.loads
   accepts it (ok) and the id of the object. *)

(* urllib.parse.parse_qsl with keep_blank_values=False drops the pairs whose
   value is empty. *)
parse_qsl(init_data) == SelectSeq(init_data, LAMBDA kv : kv[2] # None)

(* dict() of a list of pairs: the last pair of a key wins. *)
dict(pairs) ==
    [k \in {pairs[i][1] : i \in DOMAIN pairs} |->
        pairs[CHOOSE i \in DOMAIN pairs :
                 /\ pairs[i][1] = k
                 /\ \A j \in DOMAIN pairs : pairs[j][1] = k => j <= i][2]]

(* The keys of a payload in sorted() order. *)
SortedKeys == <<"auth_date", "query_id", "user">>

(* HMAC-SHA256 is modelled as an injective function of key and message. *)
hmac_sha256(key, msg) == [key |-> key, msg |-> msg]

(* The lines key=value of the params other than hash, sorted by key. *)
data_check_string(params) ==
    LET keys == SelectSeq(SortedKeys, LAMBDA k : k \in DOMAIN params)
    IN  [i \in DOMAIN keys |-> <<keys[i], params[keys[i]][1]>>]

Sign(key, params) ==
    hmac_sha256(hmac_sha256("WebAppData", key), data_check_string(params))

EmptyInitData == <<>>

TruthyInitData(o) == o # None /\ o[1] # EmptyInitData

(* Variant: the age of the payload is not looked at. *)
validate_init_data_any_age(init_data) ==
    LET all == dict(parse_qsl(init_data))
        received_hash == IF "hash" \in DOMAIN all THEN all["hash"] ELSE None
        params == [k \in DOMAIN all \ {"hash"} |-> all[k]]
        auth_date == IF "auth_date" \in DOMAIN params
                     THEN int(params["auth_date"][1]) ELSE Some(0)
        user == IF "user" \in DOMAIN params THEN params["user"] ELSE None
    IN  IF received_hash = None THEN None
        ELSE IF auth_date = None THEN None
        ELSE IF Sign(bot_token, params) # received_hash[1] THEN None
        ELSE IF user = None
             THEN Some([telegram_id |-> "None", auth_date |-> auth_date[1]])
        ELSE IF ~user[1].ok THEN None
        ELSE Some([telegram_id |-> IF user[1].id = None THEN "None"
                                   ELSE user[1].id[1],
                   auth_date |-> auth_date[1]])

validate_init_data(init_data) ==
    LET all == dict(parse_qsl(init_data))
        received_hash == IF "hash" \in DOMAIN all THEN all["hash"] ELSE None
        params == [k \in DOMAIN all \ {"hash"} |-> all[k]]
        auth_date == IF "auth_date" \in DOMAIN params
                     THEN int(params["auth_date"][1]) ELSE Some(0)
        user == IF "user" \in DOMAIN params THEN params["user"] ELSE None
    IN  IF received_hash = None THEN None
        ELSE IF auth_date = None THEN None
        ELSE IF now - auth_date[1] > max_age THEN None
        ELSE IF Sign(bot_token, params) # received_hash[1] THEN None
        ELSE IF user = None
             THEN Some([telegram_id |-> "None", auth_date |-> auth_date[1]])
        ELSE IF ~user[1].ok THEN None
        ELSE Some([telegram_id |-> IF user[1].id = None THEN "None"
                                   ELSE user[1].id[1],
                   auth_date |-> auth_date[1]])

----------------------------------------------------------------------------
(* Opaque tokens *)

(* Variant: a token without expires_at counts as expired once time has
   passed. *)
is_expired_unset(t) ==
    IF t.expires_at = None THEN now > 1 ELSE now > t.expires_at[1]

(* Variant: the comparison of is_expired the wrong way round. *)
is_expired_inverted(t) == t.expires_at # None /\ now < t.expires_at[1]

is_expired(t) == t.expires_at # None /\ now > t.expires_at[1]

(* Returns the student (or None) and the table after the last_used_at
   bookkeeping. *)
validate_token(token) ==
    LET found == {t \in access_tokens : t.token = token /\ t.is_active}
    IN  IF found = {} THEN [student |-> None, access_tokens |-> access_tokens]
        ELSE LET access_token == CHOOSE t \in found : TRUE
             IN  IF is_expired(access_token)
                 THEN [student |-> None, access_tokens |-> access_tokens]
                 ELSE IF ~students[access_token.student_id]
                 THEN [student |-> None, access_tokens |-> access_tokens]
                 ELSE [student |-> Some(access_token.student_id),
                       access_tokens |->
                           (access_tokens \ {access_token}) \cup
                           {[access_token EXCEPT !.last_used_at = Some(now)]}]

----------------------------------------------------------------------------
(* Session cookies *)

(* raised = TRUE: int() raised ValueError out of get_telegram_session. *)
get_telegram_session(req) ==
    LET telegram_id == req.cookie_telegram_id
        selected_str == req.cookie_selected_student_id
    IN  IF selected_str # None /\ isdigit(selected_str[1])
        THEN IF int(selected_str[1]) = None
             THEN [raised |-> TRUE, telegram_id |-> telegram_id,
                   selected_student_id |-> None]
             ELSE [raised |-> FALSE, telegram_id |-> telegram_id,
                   selected_student_id |-> int(selected_str[1])]
        ELSE [raised |-> FALSE, telegram_id |-> telegram_id,
              selected_student_id |-> None]

----------------------------------------------------------------------------
(* Queries on telegram_auth.  SQLite answers the query through            *)
(* idx_telegram_id_active, i.e. in rowid order, which is creation order.   *)

(* Variant: the rows come back least recently authenticated first. *)
RECURSIVE OrderByLastAuth(_)
OrderByLastAuth(S) ==
    IF S = {} THEN <<>>
    ELSE LET r == CHOOSE x \in S : \A y \in S :
                     \/ x.last_auth_at < y.last_auth_at
                     \/ x.last_auth_at = y.last_auth_at /\ x.id <= y.id
         IN  <<r>> \o OrderByLastAuth(S \ {r})

RECURSIVE OrderById(_)
OrderById(S) ==
    IF S = {} THEN <<>>
    ELSE LET r == CHOOSE x \in S : \A y \in S : x.id <= y.id
         IN  <<r>> \o OrderById(S \ {r})

ActiveLinksOf(telegram_id) ==
    OrderById({ta \in telegram_auth : ta.telegram_id = telegram_id /\ ta.is_active})

(* Variant: the student's is_active flag is not looked at. *)
StudentIsActive_unchecked(ta) == TRUE

StudentIsActive(ta) == students[ta.student_id]

active_auths_of(telegram_id) == SelectSeq(ActiveLinksOf(telegram_id), StudentIsActive)

TouchLink(ta) ==
    (telegram_auth \ {ta}) \cup {[ta EXCEPT !.last_auth_at = now]}

----------------------------------------------------------------------------
(* get_current_student *)

Outcome(student, auth, raised, tokens, links) ==
    [student |-> student, auth |-> auth, raised |-> raised,
     access_tokens |-> tokens, telegram_auth |-> links]

AuthContext(method, identifier, telegram_id) ==
    Some([auth_method |-> method, auth_identifier |-> identifier,
          telegram_id |-> telegram_id])

Unauthenticated == Outcome(None, None, FALSE, access_tokens, telegram_auth)
Raised == Outcome(None, None, TRUE, access_tokens, telegram_auth)

(* 2. valid initData of telegram_id *)
(* Variant: the selected_student_id cookie is never matched. *)
FirstWithStudent_ignored(auths, student_id) == None

FirstWithStudent(auths, student_id) ==
    LET idx == {i \in 1..Len(auths) : auths[i].student_id = student_id}
    IN  IF idx = {} THEN None
        ELSE Some(auths[CHOOSE i \in idx : \A j \in idx : i <= j])

ResolveInitData(req, telegram_id) ==
    LET active_auths == active_auths_of(telegram_id)
        session == get_telegram_session(req)
        Selected(ta) ==
            Outcome(Some(ta.student_id),
                    AuthContext("telegram", telegram_id, Some(telegram_id)),
                    FALSE, access_tokens, TouchLink(ta))
    IN  IF Len(active_auths) = 0 THEN Unauthenticated
        ELSE IF Len(active_auths) = 1 THEN Selected(active_auths[1])
        ELSE IF session.raised THEN Raised
        ELSE IF session.selected_student_id # None
                /\ session.selected_student_id[1] # 0
                /\ FirstWithStudent(active_auths, session.selected_student_id[1]) # None
             THEN Selected(FirstWithStudent(active_auths,
                                            session.selected_student_id[1])[1])
        ELSE Selected(active_auths[1])

(* 4. access_token cookie *)
ResolveTokenCookie(req) ==
    IF TruthyStr(req.cookie_access_token)
    THEN LET v == validate_token(req.cookie_access_token[1])
         IN  IF v.student # None
             THEN Outcome(v.student,
                          AuthContext("token", req.cookie_access_token[1], None),
                          FALSE, v.access_tokens, telegram_auth)
             ELSE Unauthenticated
    ELSE Unauthenticated

(* 3. telegram session cookies, falling through to 4. when absent *)
(* Variant: a telegram_id cookie without a usable selection ends the
   resolution. *)
ResolveCookies_no_fallthrough(req) ==
    LET session == get_telegram_session(req)
    IN  IF session.raised THEN Raised
        ELSE IF TruthyStr(session.telegram_id)
        THEN IF session.selected_student_id # None
                /\ session.selected_student_id[1] # 0
             THEN LET found == {ta \in telegram_auth :
                                   /\ ta.telegram_id = session.telegram_id[1]
                                   /\ ta.student_id = session.selected_student_id[1]
                                   /\ ta.is_active}
                  IN  IF found # {} /\ StudentIsActive(OrderById(found)[1])
                      THEN LET ta == OrderById(found)[1]
                           IN  Outcome(Some(ta.student_id),
                                       AuthContext("telegram",
                                                   session.telegram_id[1],
                                                   session.telegram_id),
                                       FALSE, access_tokens, TouchLink(ta))
                      ELSE Unauthenticated
             ELSE Unauthenticated
        ELSE ResolveTokenCookie(req)

(* Variant: the session lookup filters on telegram_id only. *)
ResolveCookies_anylink(req) ==
    LET session == get_telegram_session(req)
    IN  IF session.raised THEN Raised
        ELSE IF TruthyStr(session.telegram_id)
                /\ session.selected_student_id # None
                /\ session.selected_student_id[1] # 0
        THEN LET found == {ta \in telegram_auth :
                              /\ ta.telegram_id = session.telegram_id[1]
                              /\ ta.is_active}
             IN  IF found # {} /\ StudentIsActive(OrderById(found)[1])
                 THEN LET ta == OrderById(found)[1]
                      IN  Outcome(Some(ta.student_id),
                                  AuthContext("telegram", session.telegram_id[1],
                                              session.telegram_id),
                                  FALSE, access_tokens, TouchLink(ta))
                 ELSE Unauthenticated
        ELSE ResolveTokenCookie(req)

(* Variant: an unlinked session pair falls back to the access_token cookie. *)
ResolveCookies_fallback(req) ==
    LET session == get_telegram_session(req)
    IN  IF session.raised THEN Raised
        ELSE IF TruthyStr(session.telegram_id)
                /\ session.selected_student_id # None
                /\ session.selected_student_id[1] # 0
        THEN LET found == {ta \in telegram_auth :
                              /\ ta.telegram_id = session.telegram_id[1]
                              /\ ta.student_id = session.selected_student_id[1]
                              /\ ta.is_active}
             IN  IF found # {} /\ StudentIsActive(OrderById(found)[1])
                 THEN LET ta == OrderById(found)[1]
                      IN  Outcome(Some(ta.student_id),
                                  AuthContext("telegram", session.telegram_id[1],
                                              session.telegram_id),
                                  FALSE, access_tokens, TouchLink(ta))
                 ELSE ResolveTokenCookie(req)
        ELSE ResolveTokenCookie(req)

ResolveCookies(req) ==
    LET session == get_telegram_session(req)
    IN  IF session.raised THEN Raised
        ELSE IF TruthyStr(session.telegram_id)
                /\ session.selected_student_id # None
                /\ session.selected_student_id[1] # 0
        THEN LET found == {ta \in telegram_auth :
                              /\ ta.telegram_id = session.telegram_id[1]
                              /\ ta.student_id = session.selected_student_id[1]
                              /\ ta.is_active}
             IN  IF found # {} /\ StudentIsActive(OrderById(found)[1])
                 THEN LET ta == OrderById(found)[1]
                      IN  Outcome(Some(ta.student_id),
                                  AuthContext("telegram", session.telegram_id[1],
                                              session.telegram_id),
                                  FALSE, access_tokens, TouchLink(ta))
                 ELSE Unauthenticated
        ELSE ResolveTokenCookie(req)

(* 1. token in the URL *)
(* Variant: a rejected URL token falls back to the cookies. *)
ResolveUrlToken_fallback(req) ==
    LET v == validate_token(req.url_token[1])
    IN  IF v.student # None
        THEN Outcome(v.student, AuthContext("token", req.url_token[1], None),
                     FALSE, v.access_tokens, telegram_auth)
        ELSE ResolveCookies(req)

ResolveUrlToken(req) ==
    LET v == validate_token(req.url_token[1])
    IN  IF v.student # None
        THEN Outcome(v.student, AuthContext("token", req.url_token[1], None),
                     FALSE, v.access_tokens, telegram_auth)
        ELSE Unauthenticated

(* Variant: the initData header is consulted before the URL token. *)
get_current_student_payload_first(req) ==
    IF TruthyInitData(req.init_data)
       /\ bot_token # "" /\ bot_token # "YOUR_TELEGRAM_BOT_TOKEN_HERE"
       /\ validate_init_data(req.init_data[1]) # None
    THEN ResolveInitData(req, validate_init_data(req.init_data[1])[1].telegram_id)
    ELSE IF TruthyStr(req.url_token) THEN ResolveUrlToken(req)
    ELSE ResolveCookies(req)

get_current_student(req) ==
    IF TruthyStr(req.url_token) THEN ResolveUrlToken(req)
    ELSE IF TruthyInitData(req.init_data)
            /\ bot_token # "" /\ bot_token # "YOUR_TELEGRAM_BOT_TOKEN_HERE"
            /\ validate_init_data(req.init_data[1]) # None
    THEN ResolveInitData(req, validate_init_data(req.init_data[1])[1].telegram_id)
    ELSE ResolveCookies(req)

----------------------------------------------------------------------------
(* Requests *)

UserJson(telegram_id) == [ok |-> TRUE, id |-> Some(telegram_id)]

(* The query string with the given auth_date and user (None: the field is
   not sent), and the hash computed under key. *)
Signed(key, auth_date, user) ==
    LET fields ==
            (IF auth_date = None THEN <<>> ELSE <<<<"auth_date", auth_date>>>>)
            \o (IF user = None THEN <<>> ELSE <<<<"user", user>>>>)
    IN  Append(fields, <<"hash", Some(Sign(key, dict(fields)))>>)

(* Payloads of each telegram id: signed by the bot at time 0 and at time 1,
   and the fields of the latter signed under another key. *)
InitDatas ==
    UNION {{Signed(bot_token, Some(str(0)), Some(UserJson(t))),
            Signed(bot_token, Some(str(1)), Some(UserJson(t))),
            Signed("forged", Some(str(1)), Some(UserJson(t)))} :
           t \in TelegramIds}

TokenStrings == {"tokA", "zzz"}
UrlTokens == {Some(t) : t \in TokenStrings}
CookieTokens == {None, Some("tokA")}

(* The cookie is absent, the numeral of a student id, a numeral that names
   no student, or SUPERSCRIPT TWO. *)
SelectedCookies ==
    {None, Some(<<"sup2">>)} \cup {Some(str(n)) : n \in 1..NStudents + 1}

NoRequest ==
    [path_token |-> None, url_token |-> None, init_data |-> None,
     cookie_telegram_id |-> None, cookie_selected_student_id |-> None,
     cookie_access_token |-> None]

(* Requests without a URL token: every combination of payload header and
   cookies. *)
SessionRequests ==
    {[NoRequest EXCEPT !.init_data = d,
                       !.cookie_telegram_id = ct,
                       !.cookie_selected_student_id = cs,
                       !.cookie_access_token = ca] :
        d \in {None} \cup {Some(x) : x \in InitDatas},
        ct \in {None} \cup {Some(t) : t \in TelegramIds},
        cs \in SelectedCookies,
        ca \in CookieTokens}

(* Requests with a URL token: every combination of token, payload header
   and cookies. *)
UrlRequests ==
    {[r EXCEPT !.url_token = u] : r \in SessionRequests, u \in UrlTokens}

(* Requests of the specification Spec: those without a URL token, and those
   whose only credential is the URL token. *)
Requests ==
    SessionRequests \cup {[NoRequest EXCEPT !.url_token = u] : u \in UrlTokens}

(* Requests of the specification SpecTokens: those with a URL token, and
   those whose only credential is the access_token cookie. *)
TokenRequests ==
    UrlRequests \cup {[NoRequest EXCEPT !.cookie_access_token = ca] :
                         ca \in CookieTokens \ {None}}

Idle ==
    [op |-> "idle", req |-> NoRequest, student |-> None, auth |-> None,
     raised |-> FALSE, set_access_token |-> None]

----------------------------------------------------------------------------
----------------------------------------------------------------------------
(* RateLimiter.  check_rate_limit and the body of _cleanup_loop contain no  *)
(* await, so each runs to completion on the event loop: one action each.   *)

Ips == {"10.0.0.1", "10.0.0.2"}

(* The entries of a list of timestamps that are later than the cutoff. *)
Recent(times, cutoff) == SelectSeq(times, LAMBDA req_time : req_time > cutoff)

(* self.requests[ip] of a defaultdict(list). *)
RequestsOf(ip) == IF ip \in DOMAIN requests THEN requests[ip] ELSE <<>>

(* State after RateLimiter.__init__: an empty dict, the sweep task just
   created. *)
LimiterInit ==
    /\ clock = 0
    /\ requests = <<>>
    /\ swept_at = 0
    /\ admitted = [ip \in Ips |-> <<>>]
    /\ checked = None
    /\ unswept = [ip \in Ips |-> <<>>]
    /\ login_rate_limiter =
         [requests |-> <<>>, swept_at |-> 0, admitted |-> [ip \in Ips |-> <<>>]]

(* Variant: the limit is compared with > instead of >=. *)
check_rate_limit_one_more(ip) ==
    LET cutoff == clock - window
        kept == Recent(RequestsOf(ip), cutoff)
        full == Len(kept) > requests_per_minute
        unswept_kept == Recent(unswept[ip], cutoff)
        unswept_full == Len(unswept_kept) > requests_per_minute
    IN  /\ requests' =
             [i \in DOMAIN requests \cup {ip} |->
                 IF i # ip THEN requests[i]
                 ELSE IF full THEN kept ELSE Append(kept, clock)]
        /\ unswept' =
             [unswept EXCEPT ![ip] = IF unswept_full THEN unswept_kept
                                     ELSE Append(unswept_kept, clock)]
        /\ checked' = Some([ip |-> ip, at |-> clock,
                            status |-> IF full THEN Some(429) ELSE None,
                            unswept_status |->
                                IF unswept_full THEN Some(429) ELSE None])
        /\ admitted' = IF full THEN admitted
                       ELSE [admitted EXCEPT ![ip] = Append(@, clock)]
        /\ UNCHANGED <<clock, swept_at, login_rate_limiter>>
        /\ UNCHANGED core_vars

(* Variant: the timestamp of a refused call is recorded as well. *)
check_rate_limit_record_refused(ip) ==
    LET cutoff == clock - window
        kept == Recent(RequestsOf(ip), cutoff)
        full == Len(kept) >= requests_per_minute
        unswept_kept == Recent(unswept[ip], cutoff)
        unswept_full == Len(unswept_kept) >= requests_per_minute
    IN  /\ requests' =
             [i \in DOMAIN requests \cup {ip} |->
                 IF i # ip THEN requests[i] ELSE Append(kept, clock)]
        /\ unswept' = [unswept EXCEPT ![ip] = Append(unswept_kept, clock)]
        /\ checked' = Some([ip |-> ip, at |-> clock,
                            status |-> IF full THEN Some(429) ELSE None,
                            unswept_status |->
                                IF unswept_full THEN Some(429) ELSE None])
        /\ admitted' = IF full THEN admitted
                       ELSE [admitted EXCEPT ![ip] = Append(@, clock)]
        /\ UNCHANGED <<clock, swept_at, login_rate_limiter>>
        /\ UNCHANGED core_vars

(* One call of check_rate_limit for the address ip.  `checked` records the
   outcome (status 429 for the HTTPException, None for a normal return) and
   `admitted` the time of the call when it returns normally. *)
check_rate_limit(ip) ==
    LET cutoff == clock - window
        kept == Recent(RequestsOf(ip), cutoff)
        full == Len(kept) >= requests_per_minute
        unswept_kept == Recent(unswept[ip], cutoff)
        unswept_full == Len(unswept_kept) >= requests_per_minute
    IN  /\ requests' =
             [i \in DOMAIN requests \cup {ip} |->
                 IF i # ip THEN requests[i]
                 ELSE IF full THEN kept ELSE Append(kept, clock)]
        /\ unswept' =
             [unswept EXCEPT ![ip] = IF unswept_full THEN unswept_kept
                                     ELSE Append(unswept_kept, clock)]
        /\ checked' = Some([ip |-> ip, at |-> clock,
                            status |-> IF full THEN Some(429) ELSE None,
                            unswept_status |->
                                IF unswept_full THEN Some(429) ELSE None])
        /\ admitted' = IF full THEN admitted
                       ELSE [admitted EXCEPT ![ip] = Append(@, clock)]
        /\ UNCHANGED <<clock, swept_at, login_rate_limiter>>
        /\ UNCHANGED core_vars

(* Variant: the sweep evicts everything that is not of the current instant. *)
cleanup_loop_eager ==
    /\ clock >= swept_at + cleanup_interval
    /\ LET cutoff == clock - 1
           kept == [i \in DOMAIN requests |-> Recent(requests[i], cutoff)]
       IN  requests' = [i \in {j \in DOMAIN requests : kept[j] # <<>>} |-> kept[i]]
    /\ swept_at' = clock
    /\ UNCHANGED <<clock, admitted, checked, login_rate_limiter, unswept>>
    /\ UNCHANGED core_vars

(* One pass of _cleanup_loop after its sleep of cleanup_interval. *)
cleanup_loop ==
    /\ clock >= swept_at + cleanup_interval
    /\ LET cutoff == clock - sweep_window
           kept == [i \in DOMAIN requests |-> Recent(requests[i], cutoff)]
       IN  requests' = [i \in {j \in DOMAIN requests : kept[j] # <<>>} |-> kept[i]]
    /\ swept_at' = clock
    /\ UNCHANGED <<clock, admitted, checked, login_rate_limiter, unswept>>
    /\ UNCHANGED core_vars

(* datetime.utcnow() advances; the record of admitted calls keeps those of
   the window that ends now. *)
ClockTick ==
    /\ clock < MaxClock
    /\ clock' = clock + 1
    /\ admitted' = [ip \in Ips |-> Recent(admitted[ip], clock + 1 - window)]
    /\ login_rate_limiter' =
         [login_rate_limiter EXCEPT !.admitted =
             [ip \in Ips |-> Recent(@[ip], clock + 1 - window)]]
    /\ UNCHANGED <<requests, swept_at, checked, unswept>>
    /\ UNCHANGED core_vars

(* login_rate_limiter, the second instance of RateLimiter: its dict, the
   time of the last pass of its own sweep, and the record of its admitted
   calls of the current window. *)
LoginRequestsOf(ip) ==
    IF ip \in DOMAIN login_rate_limiter.requests
    THEN login_rate_limiter.requests[ip] ELSE <<>>

(* Variant: the instance is built with the capacity of the general one. *)
login_check_rate_limit_general(ip) ==
    LET cutoff == clock - window
        kept == Recent(LoginRequestsOf(ip), cutoff)
        full == Len(kept) >= requests_per_minute
    IN  /\ login_rate_limiter' =
             [login_rate_limiter EXCEPT
                 !.requests =
                     [i \in DOMAIN login_rate_limiter.requests \cup {ip} |->
                         IF i # ip THEN login_rate_limiter.requests[i]
                         ELSE IF full THEN kept ELSE Append(kept, clock)],
                 !.admitted =
                     IF full THEN @ ELSE [@ EXCEPT ![ip] = Append(@, clock)]]
        /\ checked' = Some([ip |-> ip, at |-> clock,
                            status |-> IF full THEN Some(429) ELSE None,
                            limiter |-> "login_rate_limiter"])

(* login_rate_limiter.check_rate_limit for the address ip. *)
login_check_rate_limit(ip) ==
    LET cutoff == clock - window
        kept == Recent(LoginRequestsOf(ip), cutoff)
        full == Len(kept) >= login_requests_per_minute
    IN  /\ login_rate_limiter' =
             [login_rate_limiter EXCEPT
                 !.requests =
                     [i \in DOMAIN login_rate_limiter.requests \cup {ip} |->
                         IF i # ip THEN login_rate_limiter.requests[i]
                         ELSE IF full THEN kept ELSE Append(kept, clock)],
                 !.admitted =
                     IF full THEN @ ELSE [@ EXCEPT ![ip] = Append(@, clock)]]
        /\ checked' = Some([ip |-> ip, at |-> clock,
                            status |-> IF full THEN Some(429) ELSE None,
                            limiter |-> "login_rate_limiter"])

(* One pass of the _cleanup_loop of login_rate_limiter. *)
login_cleanup_loop ==
    /\ clock >= login_rate_limiter.swept_at + cleanup_interval
    /\ LET cutoff == clock - sweep_window
           kept == [i \in DOMAIN login_rate_limiter.requests |->
                      Recent(login_rate_limiter.requests[i], cutoff)]
       IN  login_rate_limiter' =
             [login_rate_limiter EXCEPT
                 !.requests = [i \in {j \in DOMAIN kept : kept[j] # <<>>} |->
                                  kept[i]],
                 !.swept_at = clock]
    /\ UNCHANGED <<clock, requests, swept_at, admitted, checked, unswept>>
    /\ UNCHANGED core_vars

(* A path is the sequence of its segments; startswith('/admin') looks at
   the first one. *)
Paths == {<<"admin", "login">>, <<"admin", "tokens">>, <<"auth", "telegram">>}
Methods == {"GET", "POST"}

(* rate_limit_middleware up to call_next: POST /admin/login is checked by
   login_rate_limiter, the paths under /admin by neither limiter, every
   other request by rate_limiter. *)
rate_limit_middleware(ip, path, method) ==
    IF path = <<"admin", "login">> /\ method = "POST"
    THEN /\ login_check_rate_limit(ip)
         /\ UNCHANGED <<clock, requests, swept_at, admitted, unswept>>
         /\ UNCHANGED core_vars
    ELSE IF ~(Len(path) >= 1 /\ path[1] = "admin")
    THEN check_rate_limit(ip)
    ELSE /\ checked' = Some([ip |-> ip, at |-> clock, status |-> None,
                             limiter |-> "none"])
         /\ UNCHANGED <<clock, requests, swept_at, admitted,
                        login_rate_limiter, unswept>>
         /\ UNCHANGED core_vars

(* GoogleSheetsManager: the gspread client, the cache, its clock counted in
   units of CACHE_TTL_SECONDS, and the call of get_student_history that is
   running: where it is, the outcomes of its fetch attempts, the waits of
   time.sleep, and the cache as the call found it. *)
NoCall ==
    [pc |-> "idle", worksheet_name |-> "", use_cache |-> FALSE, attempt |-> 0,
     outcomes |-> <<>>, slept |-> <<>>, result |-> None, cache_before |-> <<>>]

SheetsInit ==
    [client |-> None, cache |-> <<>>, utcnow |-> 0, call |-> NoCall]

MAX_RETRIES == 3
RETRY_BACKOFF_FACTOR == 2
CACHE_TTL_SECONDS == 1

Worksheets == {"anna", "boris"}
SheetData == {"v1", "v2"}

(* What one fetch attempt meets: the data, an error of the SSL classes of
   the except clause, or any other exception. *)
FetchOutcomes == {"ok", "ssl", "other"}

cache_key(worksheet_name) == <<"student_history", worksheet_name>>

(* CacheEntry.is_expired *)
entry_is_expired(entry) ==
    sheets_manager.utcnow - entry.cached_at > entry.ttl_seconds

SheetsFrame ==
    /\ UNCHANGED <<now, students, telegram_auth, access_tokens, resp>>
    /\ UNCHANGED <<pending_links, access_logs, limiter_vars, sessions, jar>>

(* get_student_history up to the call of _fetch_with_retry: a cache hit is
   returned, an expired entry is deleted by _get_from_cache. *)
get_student_history(worksheet_name, use_cache) ==
    LET key == cache_key(worksheet_name)
        cache == sheets_manager.cache
        present == use_cache /\ key \in DOMAIN cache
        hit == present /\ ~entry_is_expired(cache[key])
        call == [NoCall EXCEPT !.worksheet_name = worksheet_name,
                               !.use_cache = use_cache,
                               !.cache_before = cache]
    IN  /\ sheets_manager.call.pc = "idle"
        /\ sheets_manager' =
             IF hit
             THEN [sheets_manager EXCEPT
                      !.call = [call EXCEPT !.pc = "returned",
                                            !.result = Some(cache[key].data)]]
             ELSE [sheets_manager EXCEPT
                      !.cache = IF present
                                THEN [k \in DOMAIN cache \ {key} |-> cache[k]]
                                ELSE cache,
                      !.call = [call EXCEPT !.pc = "fetching"]]
        /\ SheetsFrame

(* Variant: the loop runs once more than MAX_RETRIES. *)
fetch_attempt_once_more(outcome, connected, data) ==
    LET call == sheets_manager.call
        key == cache_key(call.worksheet_name)
        client == IF sheets_manager.client # None THEN sheets_manager.client
                  ELSE IF connected THEN Some("gspread") ELSE None
        tried == [call EXCEPT !.outcomes = Append(@, outcome)]
    IN  /\ call.pc = "fetching"
        /\ sheets_manager.client # None => connected
        /\ outcome = "ok" => client # None
        /\ sheets_manager' =
             IF outcome = "ok"
             THEN [sheets_manager EXCEPT
                      !.client = client,
                      !.cache =
                          IF call.use_cache
                          THEN [k \in DOMAIN @ \cup {key} |->
                                   IF k = key
                                   THEN [data |-> data,
                                         cached_at |-> sheets_manager.utcnow,
                                         ttl_seconds |-> CACHE_TTL_SECONDS]
                                   ELSE @[k]]
                          ELSE @,
                      !.call = [tried EXCEPT !.pc = "returned",
                                             !.result = Some(data)]]
             ELSE IF outcome = "ssl" /\ call.attempt < MAX_RETRIES
             THEN [sheets_manager EXCEPT
                      !.client = None,
                      !.call = [tried EXCEPT
                                   !.attempt = @ + 1,
                                   !.slept = Append(@, RETRY_BACKOFF_FACTOR
                                                         ^ call.attempt)]]
             ELSE [sheets_manager EXCEPT
                      !.client = client,
                      !.call = [tried EXCEPT !.pc = "raised"]]
        /\ SheetsFrame

(* One pass of the loop of _fetch_with_retry: _get_client, the fetch, and
   the except clause the outcome leads to.  connected is FALSE when the
   client has to be created and gspread.service_account raises. *)
fetch_attempt(outcome, connected, data) ==
    LET call == sheets_manager.call
        key == cache_key(call.worksheet_name)
        client == IF sheets_manager.client # None THEN sheets_manager.client
                  ELSE IF connected THEN Some("gspread") ELSE None
        tried == [call EXCEPT !.outcomes = Append(@, outcome)]
    IN  /\ call.pc = "fetching"
        /\ sheets_manager.client # None => connected
        /\ outcome = "ok" => client # None
        /\ sheets_manager' =
             IF outcome = "ok"
             THEN [sheets_manager EXCEPT
                      !.client = client,
                      !.cache =
                          IF call.use_cache
                          THEN [k \in DOMAIN @ \cup {key} |->
                                   IF k = key
                                   THEN [data |-> data,
                                         cached_at |-> sheets_manager.utcnow,
                                         ttl_seconds |-> CACHE_TTL_SECONDS]
                                   ELSE @[k]]
                          ELSE @,
                      !.call = [tried EXCEPT !.pc = "returned",
                                             !.result = Some(data)]]
             ELSE IF outcome = "ssl" /\ call.attempt < MAX_RETRIES - 1
             THEN [sheets_manager EXCEPT
                      !.client = None,
                      !.call = [tried EXCEPT
                                   !.attempt = @ + 1,
                                   !.slept = Append(@, RETRY_BACKOFF_FACTOR
                                                         ^ call.attempt)]]
             ELSE [sheets_manager EXCEPT
                      !.client = client,
                      !.call = [tried EXCEPT !.pc = "raised"]]
        /\ SheetsFrame

(* The caller has the result or the exception. *)
SheetsReturn ==
    /\ sheets_manager.call.pc \in {"returned", "raised"}
    /\ sheets_manager' = [sheets_manager EXCEPT !.call = NoCall]
    /\ SheetsFrame

(* datetime.utcnow() of the cache advances by one CACHE_TTL_SECONDS. *)
SheetsTick ==
    /\ sheets_manager.utcnow < MaxSheetsTime
    /\ sheets_manager' = [sheets_manager EXCEPT !.utcnow = @ + 1]
    /\ SheetsFrame

(* The cookie jar of the one client that is followed: the three cookies the
   application sets, each absent or present with its value. *)
EmptyJar ==
    [access_token |-> None, telegram_id |-> None, selected_student_id |-> None]

(* The database sessions of the calls followed statement by statement.  A
   session is closed, holds the row its query loaded, or has answered. *)
SessionIds == 1..NSessions

Closed ==
    [op |-> "none", pc |-> "closed", arg |-> None, row |-> None, result |-> None]


----------------------------------------------------------------------------
(* Initial state: the students are active, student 1 holds the token
   "tokA", which expires at time 1; no links. *)

Init ==
    /\ now = 1
    /\ students = [s \in StudentIds |-> TRUE]
    /\ telegram_auth = {}
    /\ access_tokens =
         {[id |-> 1, token |-> "tokA", student_id |-> 1, expires_at |-> Some(1),
           is_active |-> TRUE, last_used_at |-> None]}
    /\ resp = Idle
    /\ pending_links = {}
    /\ access_logs = <<>>
    /\ LimiterInit
    /\ sessions = [i \in SessionIds |-> Closed]
    /\ jar = EmptyJar
    /\ sheets_manager = SheetsInit

(* The links of one telegram id, created at time 1 for the students of the
   sequence in that order. *)
LinksCreated(telegram_id, order) ==
    {[id |-> i, telegram_id |-> telegram_id, student_id |-> order[i],
      is_active |-> TRUE, last_auth_at |-> 1] : i \in 1..Len(order)}

LinkOrders ==
    {<<>>} \cup {<<a>> : a \in StudentIds}
           \cup {o \in StudentIds \X StudentIds : o[1] # o[2]}

(* Initial states of SpecTokens: as Init, after zero, one or two links of a
   telegram id were created. *)
InitTokens ==
    /\ now = 1
    /\ students = [s \in StudentIds |-> TRUE]
    /\ \E t \in TelegramIds, order \in LinkOrders :
          telegram_auth = LinksCreated(t, order)
    /\ access_tokens =
         {[id |-> 1, token |-> "tokA", student_id |-> 1, expires_at |-> Some(1),
           is_active |-> TRUE, last_used_at |-> None]}
    /\ resp = Idle
    /\ pending_links = {}
    /\ access_logs = <<>>
    /\ LimiterInit
    /\ sessions = [i \in SessionIds |-> Closed]
    /\ jar = EmptyJar
    /\ sheets_manager = SheetsInit

----------------------------------------------------------------------------
(* Request handlers *)

GetCurrentStudent(req) ==
    /\ resp = Idle
    /\ \E out \in {get_current_student(req)} :
           /\ access_tokens' = out.access_tokens
           /\ telegram_auth' = out.telegram_auth
           /\ resp' = [op |-> "get_current_student", req |-> req,
                       student |-> out.student, auth |-> out.auth,
                       raised |-> out.raised, set_access_token |-> None]
    /\ UNCHANGED <<now, students>>
    /\ UNCHANGED aux_vars

(* Variant: the new row takes the place of the rows that were there. *)
log_access_overwrite(logs, student_id, auth_method, auth_identifier, success, error) ==
    <<[student_id |-> student_id, auth_method |-> auth_method,
       auth_identifier |-> auth_identifier, success |-> success,
       error_message |-> error]>>

(* The table access_logs after log_access; the client metadata and the
   timestamp of the row are left out. *)
log_access(logs, student_id, auth_method, auth_identifier, success, error) ==
    Append(logs, [student_id |-> student_id, auth_method |-> auth_method,
                  auth_identifier |-> auth_identifier, success |-> success,
                  error_message |-> error])

(* GET /t/{token}: the refusal is a plain text with status 401, the
   acceptance a redirect to the page that sets the access_token cookie; both
   write an audit row. *)
InvalidTokenText == "invalid or expired token"

(* Variant: a revoked token is answered with a status of its own. *)
token_access_tell_revoked(token) ==
    /\ resp = Idle
    /\ Len(access_logs) < MaxLogs
    /\ LET v == validate_token(token)
       IN  /\ access_tokens' = v.access_tokens
           /\ access_logs' =
                 IF v.student = None
                 THEN log_access(access_logs, None, "token", token, FALSE,
                                 "Invalid token")
                 ELSE log_access(access_logs, v.student, "token", token,
                                 TRUE, "")
           /\ resp' = [op |-> "token_access",
                       req |-> [NoRequest EXCEPT !.path_token = Some(token)],
                       student |-> v.student, auth |-> None, raised |-> FALSE,
                       set_access_token |->
                           IF v.student # None THEN Some(token) ELSE None,
                       status |->
                           IF v.student # None THEN 302
                           ELSE IF \E t \in access_tokens :
                                      t.token = token /\ ~t.is_active
                           THEN 410 ELSE 401,
                       body |-> IF v.student # None THEN "" ELSE InvalidTokenText,
                       location |->
                           IF v.student # None THEN Some(<<"/student", token>>)
                           ELSE None]
    /\ UNCHANGED <<now, students, telegram_auth>>
    /\ UNCHANGED <<limiter_vars, sessions, jar, sheets_manager, pending_links>>

token_access(token) ==
    /\ resp = Idle
    /\ Len(access_logs) < MaxLogs
    /\ LET v == validate_token(token)
       IN  /\ access_tokens' = v.access_tokens
           /\ access_logs' =
                 IF v.student = None
                 THEN log_access(access_logs, None, "token", token, FALSE,
                                 "Invalid token")
                 ELSE log_access(access_logs, v.student, "token", token,
                                 TRUE, "")
           /\ resp' = [op |-> "token_access",
                       req |-> [NoRequest EXCEPT !.path_token = Some(token)],
                       student |-> v.student, auth |-> None, raised |-> FALSE,
                       set_access_token |->
                           IF v.student # None THEN Some(token) ELSE None,
                       status |-> IF v.student # None THEN 302 ELSE 401,
                       body |-> IF v.student # None THEN "" ELSE InvalidTokenText,
                       location |->
                           IF v.student # None THEN Some(<<"/student", token>>)
                           ELSE None]
    /\ UNCHANGED <<now, students, telegram_auth>>
    /\ UNCHANGED <<limiter_vars, sessions, jar, sheets_manager, pending_links>>

(* GET /student: require_student, then the page.  outcome is what the body
   of the handler meets: "ok", "sheet_error" when reading the sheet raises
   before the audit row is written, "render_error" when a later statement
   raises after it. *)
PageOutcomes == {"ok", "sheet_error", "render_error"}

student_page(req, outcome) ==
    /\ resp = Idle
    /\ Len(access_logs) + (IF outcome = "render_error" THEN 2 ELSE 1) <= MaxLogs
    /\ LET out == get_current_student(req)
           logged(logs, success, error) ==
               log_access(logs, out.student, out.auth[1].auth_method,
                          out.auth[1].auth_identifier, success, error)
       IN  /\ access_tokens' = out.access_tokens
           /\ telegram_auth' = out.telegram_auth
           /\ access_logs' =
                 IF out.student = None \/ out.auth = None THEN access_logs
                 ELSE IF outcome = "ok" THEN logged(access_logs, TRUE, "")
                 ELSE IF outcome = "sheet_error"
                 THEN logged(access_logs, FALSE, "error")
                 ELSE logged(logged(access_logs, TRUE, ""), FALSE, "error")
           /\ resp' = [op |-> "student_page", req |-> req,
                       student |-> out.student, auth |-> out.auth,
                       raised |-> out.raised, set_access_token |-> None,
                       status |-> IF out.raised THEN 500
                                  ELSE IF out.student = None THEN 401
                                  ELSE IF outcome = "ok" THEN 200 ELSE 500]
    /\ UNCHANGED <<now, students>>
    /\ UNCHANGED <<limiter_vars, sessions, jar, sheets_manager, pending_links>>

Return ==
    /\ resp # Idle
    /\ resp' = Idle
    /\ UNCHANGED <<now, students, telegram_auth, access_tokens>>
    /\ UNCHANGED aux_vars

----------------------------------------------------------------------------
(* Admin operations *)

NextAuthId ==
    IF telegram_auth = {} THEN 1
    ELSE 1 + (CHOOSE n \in {ta.id : ta \in telegram_auth} :
                 \A ta \in telegram_auth : ta.id <= n)

(* Variant: the pair is inserted without looking for an existing row. *)
link_telegram_unchecked(student_id, telegram_id) ==
    /\ resp = Idle
    /\ NextAuthId <= MaxAuthId
    /\ IF student_id \notin StudentIds
       THEN UNCHANGED telegram_auth
       ELSE telegram_auth' = telegram_auth \cup
                {[id |-> NextAuthId, telegram_id |-> telegram_id,
                  student_id |-> student_id, is_active |-> TRUE,
                  last_auth_at |-> now]}
    /\ UNCHANGED <<now, students, access_tokens, resp>>
    /\ UNCHANGED aux_vars

link_telegram(student_id, telegram_id) ==
    /\ resp = Idle
    /\ NextAuthId <= MaxAuthId
    /\ IF student_id \notin StudentIds
          \/ \E ta \in telegram_auth :
                ta.telegram_id = telegram_id /\ ta.student_id = student_id
       THEN UNCHANGED telegram_auth
       ELSE telegram_auth' = telegram_auth \cup
                {[id |-> NextAuthId, telegram_id |-> telegram_id,
                  student_id |-> student_id, is_active |-> TRUE,
                  last_auth_at |-> now]}
    /\ UNCHANGED <<now, students, access_tokens, resp>>
    /\ UNCHANGED aux_vars

unlink_telegram(auth_id) ==
    /\ resp = Idle
    /\ telegram_auth' = {ta \in telegram_auth : ta.id # auth_id}
    /\ UNCHANGED <<now, students, access_tokens, resp>>
    /\ UNCHANGED aux_vars

(* The redirect or error an operator route of the admin panel answers with. *)
AdminReply(op, args, status) ==
    [op |-> op, req |-> args, student |-> None, auth |-> None,
     raised |-> FALSE, set_access_token |-> None, status |-> status]

(* The uuid4 string of the n-th generated token. *)
generate_token_string(n) ==
    CASE n = 2 -> "tokB" [] n = 3 -> "tokC" [] OTHER -> "tokD"

NextTokenId ==
    IF access_tokens = {} THEN 1
    ELSE 1 + (CHOOSE m \in {t.id : t \in access_tokens} :
                 \A t \in access_tokens : t.id <= m)

generate_token(student_id) ==
    /\ resp = Idle
    /\ Cardinality(access_tokens) < MaxTokens
    /\ access_tokens' = access_tokens \cup
         {[id |-> NextTokenId, token |-> generate_token_string(NextTokenId),
           student_id |-> student_id, expires_at |-> None,
           is_active |-> TRUE, last_used_at |-> None]}
    /\ resp' = AdminReply("generate_token", [student_id |-> student_id], 302)
    /\ UNCHANGED <<now, students, telegram_auth>>
    /\ UNCHANGED aux_vars

(* Variant: the row is deleted, as unlink_telegram does with a link. *)
revoke_token_delete(token_id) ==
    /\ resp = Idle
    /\ access_tokens' = {t \in access_tokens : t.id # token_id}
    /\ resp' = AdminReply("revoke_token", [token_id |-> token_id], 302)
    /\ UNCHANGED <<now, students, telegram_auth>>
    /\ UNCHANGED aux_vars

revoke_token(token_id) ==
    /\ resp = Idle
    /\ access_tokens' =
         {IF t.id = token_id THEN [t EXCEPT !.is_active = FALSE] ELSE t :
             t \in access_tokens}
    /\ resp' = AdminReply("revoke_token", [token_id |-> token_id], 302)
    /\ UNCHANGED <<now, students, telegram_auth>>
    /\ UNCHANGED aux_vars

(* Student.is_active is cleared in the database by the operator. *)
DeactivateStudent(s) ==
    /\ resp = Idle
    /\ students[s]
    /\ students' = [students EXCEPT ![s] = FALSE]
    /\ UNCHANGED <<now, telegram_auth, access_tokens, resp>>
    /\ UNCHANGED aux_vars

Tick ==
    /\ resp = Idle
    /\ now < MaxTime
    /\ now' = now + 1
    /\ UNCHANGED <<students, telegram_auth, access_tokens, resp>>
    /\ UNCHANGED aux_vars

----------------------------------------------------------------------------
(* The POST entry points /auth/telegram, /auth/select-student, /auth/logout *)
(* and their dependency require_csrf.  A slug stands for its student's id. *)

(* Variant: every request passes. *)
require_csrf_open(req) == TRUE

(* TRUE when the dependency returns, FALSE when it raises the 403. *)
require_csrf(req) ==
    \/ TruthyInitData(req.init_data)
    \/ req.x_requested_with = Some("XMLHttpRequest")

NextPendingId ==
    IF pending_links = {} THEN 1
    ELSE 1 + (CHOOSE n \in {p.id : p \in pending_links} :
                 \A p \in pending_links : p.id <= n)

(* Variant: a row is inserted at every attempt. *)
RecordPending_insert(telegram_id) ==
    pending_links \cup
        {[id |-> NextPendingId, telegram_id |-> telegram_id,
          first_attempt_at |-> now, last_attempt_at |-> now,
          attempt_count |-> 1]}

(* The table pending_telegram_links after the unmatched attempt of
   telegram_id: the row of the id is updated, or a row is inserted. *)
RecordPending(telegram_id) ==
    LET found == {p \in pending_links : p.telegram_id = telegram_id}
    IN  IF found # {}
        THEN LET pending == CHOOSE p \in found : \A q \in found : p.id <= q.id
             IN  (pending_links \ {pending}) \cup
                     {[pending EXCEPT !.last_attempt_at = now,
                                      !.attempt_count = @ + 1]}
        ELSE pending_links \cup
                 {[id |-> NextPendingId, telegram_id |-> telegram_id,
                   first_attempt_at |-> now, last_attempt_at |-> now,
                   attempt_count |-> 1]}

(* The table telegram_auth after last_auth_at of the records is set. *)
TouchAll(records) ==
    {IF \E i \in 1..Len(records) : records[i] = ta
     THEN [ta EXCEPT !.last_auth_at = now] ELSE ta : ta \in telegram_auth}

(* What a handler leaves behind: the response and the tables. *)
Reply(status, success, student, multiple_students, set_cookies, delete_cookies, links, pending, logs) ==
    [status |-> status, success |-> success, student |-> student,
     multiple_students |-> multiple_students,
     set_cookies |-> set_cookies, delete_cookies |-> delete_cookies,
     students |-> <<>>,
     telegram_auth |-> links, pending_links |-> pending, access_logs |-> logs]

(* A response that changes no table and no cookie. *)
Refusal(status) ==
    Reply(status, FALSE, None, FALSE, {}, {},
          telegram_auth, pending_links, access_logs)

(* The cookies of set_telegram_session. *)
(* Variant: the selection is not stored. *)
TelegramSessionCookies_id_only(telegram_id, selected_student_id) ==
    {<<"telegram_id", telegram_id>>}

TelegramSessionCookies(telegram_id, selected_student_id) ==
    {<<"telegram_id", telegram_id>>,
     <<"selected_student_id", str(selected_student_id)>>}

(* Variant: only the student of the first record is offered. *)
students_list_first(active_records) == <<active_records[1].student_id>>

(* The list "students" of the answer: one entry for each record. *)
students_list(active_records) ==
    [i \in 1..Len(active_records) |-> active_records[i].student_id]

(* POST /auth/telegram *)
telegram_auth_post(req) ==
    IF ~require_csrf(req) THEN Refusal(403)
    ELSE IF ~TruthyInitData(req.init_data) THEN Refusal(200)
    ELSE IF bot_token = "" \/ bot_token = "YOUR_TELEGRAM_BOT_TOKEN_HERE"
    THEN Refusal(200)
    ELSE LET user_data == validate_init_data(req.init_data[1])
         IN  IF user_data = None
             THEN Reply(200, FALSE, None, FALSE, {}, {}, telegram_auth,
                        pending_links,
                        log_access(access_logs, None, "telegram", "invalid",
                                   FALSE, "Invalid init data"))
             ELSE LET telegram_id == user_data[1].telegram_id
                      active_records == active_auths_of(telegram_id)
                  IN  IF Len(active_records) = 0
                      THEN Reply(200, FALSE, None, FALSE, {}, {}, telegram_auth,
                                 RecordPending(telegram_id),
                                 log_access(access_logs, None, "telegram",
                                            telegram_id, FALSE,
                                            "Telegram ID not linked"))
                      ELSE IF Len(active_records) > 1
                      THEN [Reply(200, TRUE, None, TRUE, {}, {},
                                  TouchAll(active_records), pending_links,
                                  access_logs)
                               EXCEPT !.students = students_list(active_records)]
                      ELSE Reply(200, TRUE, Some(active_records[1].student_id),
                                 FALSE,
                                 TelegramSessionCookies(
                                     telegram_id, active_records[1].student_id),
                                 {}, TouchAll(active_records), pending_links,
                                 log_access(access_logs,
                                            Some(active_records[1].student_id),
                                            "telegram", telegram_id, TRUE, ""))

(* POST /auth/select-student *)
select_student_post(req) ==
    IF ~require_csrf(req) THEN Refusal(403)
    ELSE IF req.body_student_slug = None THEN Refusal(400)
    ELSE LET user_data ==
                 IF TruthyInitData(req.init_data) /\ bot_token # ""
                    /\ bot_token # "YOUR_TELEGRAM_BOT_TOKEN_HERE"
                 THEN validate_init_data(req.init_data[1]) ELSE None
             telegram_id ==
                 IF user_data # None /\ user_data[1].telegram_id # ""
                 THEN Some(user_data[1].telegram_id)
                 ELSE IF TruthyStr(req.body_telegram_id) THEN req.body_telegram_id
                 ELSE IF TruthyStr(req.cookie_telegram_id)
                 THEN req.cookie_telegram_id
                 ELSE None
         IN  IF telegram_id = None THEN Refusal(401)
             ELSE LET found == SelectSeq(active_auths_of(telegram_id[1]),
                                LAMBDA ta : ta.student_id = req.body_student_slug[1])
                  IN  IF Len(found) = 0
                      THEN Reply(403, FALSE, None, FALSE, {}, {}, telegram_auth,
                                 pending_links,
                                 log_access(access_logs, None, "telegram",
                                            telegram_id[1], FALSE,
                                            "Invalid student selection"))
                      ELSE Reply(200, TRUE, Some(found[1].student_id), FALSE,
                                 TelegramSessionCookies(telegram_id[1],
                                                        found[1].student_id),
                                 {}, TouchLink(found[1]), pending_links,
                                 log_access(access_logs,
                                            Some(found[1].student_id),
                                            "telegram", telegram_id[1], TRUE, ""))

(* Variant: the access_token cookie is left to the client. *)
logout_post_keep_token(req) ==
    IF ~require_csrf(req) THEN Refusal(403)
    ELSE Reply(200, TRUE, None, FALSE, {},
               {"telegram_id", "selected_student_id"},
               telegram_auth, pending_links, access_logs)

(* POST /auth/logout *)
logout_post(req) ==
    IF ~require_csrf(req) THEN Refusal(403)
    ELSE Reply(200, TRUE, None, FALSE, {},
               {"telegram_id", "selected_student_id", "access_token"},
               telegram_auth, pending_links, access_logs)

(* The handler of the entry point the request is sent to. *)
Handle(req) ==
    IF req.endpoint = "/auth/telegram" THEN telegram_auth_post(req)
    ELSE IF req.endpoint = "/auth/select-student" THEN select_student_post(req)
    ELSE logout_post(req)

(* One POST request, answered; at most MaxLogs rows are logged. *)
Post(req) ==
    /\ resp = Idle
    /\ Len(access_logs) < MaxLogs
    /\ LET out == Handle(req)
       IN  /\ telegram_auth' = out.telegram_auth
           /\ pending_links' = out.pending_links
           /\ access_logs' = out.access_logs
           /\ resp' = [op |-> "post", req |-> req, student |-> out.student,
                       auth |-> None, raised |-> FALSE,
                       set_access_token |-> None, status |-> out.status,
                       success |-> out.success,
                       multiple_students |-> out.multiple_students,
                       students |-> out.students,
                       set_cookies |-> out.set_cookies,
                       delete_cookies |-> out.delete_cookies]
    /\ UNCHANGED <<now, students, access_tokens>>
    /\ UNCHANGED <<limiter_vars, sessions, jar, sheets_manager>>

(* The requests sent to the entry points. *)
NoPost ==
    [endpoint |-> "", url_token |-> None, init_data |-> None,
     x_requested_with |-> None, body_student_slug |-> None,
     body_telegram_id |-> None, cookie_telegram_id |-> None]

PostInitDatas ==
    {None} \cup
    UNION {{Some(Signed(bot_token, Some(str(1)), Some(UserJson(t)))),
            Some(Signed("forged", Some(str(1)), Some(UserJson(t))))} :
           t \in TelegramIds}

RequestedWith == {None, Some("XMLHttpRequest"), Some("fetch")}

PostRequests ==
    {[NoPost EXCEPT !.endpoint = e, !.init_data = d, !.x_requested_with = x] :
        e \in {"/auth/telegram", "/auth/logout"}, d \in PostInitDatas,
        x \in RequestedWith}
    \cup
    {[NoPost EXCEPT !.endpoint = "/auth/select-student", !.init_data = d,
                    !.x_requested_with = x, !.body_student_slug = Some(s),
                    !.body_telegram_id = ids[1], !.cookie_telegram_id = ids[2]] :
        d \in PostInitDatas, x \in RequestedWith \ {Some("fetch")},
        s \in StudentIds,
        ids \in {<<None, None>>} \cup
                UNION {{<<Some(t), None>>, <<None, Some(t)>>} : t \in TelegramIds}}
    \cup
    {[NoPost EXCEPT !.endpoint = "/auth/select-student",
                    !.x_requested_with = Some("XMLHttpRequest")]}

(* Page requests whose only credential is the payload header. *)
PayloadRequests ==
    {[NoRequest EXCEPT !.init_data = Some(d)] : d \in InitDatas}

----------------------------------------------------------------------------
(* The operator's operations on pending links, and the bot's /start.       *)
(* commit_ok is FALSE when db.commit() raises.                             *)

(* Variant: the student is looked up without the is_active filter. *)
approve_pending_link_any_student(pending_id, student_id, commit_ok) ==
    LET found == {p \in pending_links : p.id = pending_id}
        args == [pending_id |-> pending_id, student_id |-> student_id]
        Answer(status) == resp' = AdminReply("approve_pending_link", args, status)
    IN  /\ resp = Idle
        /\ IF found = {} \/ student_id \notin StudentIds
           THEN Answer(404) /\ UNCHANGED <<pending_links, telegram_auth>>
           ELSE LET pending == CHOOSE p \in found : TRUE
                    existing == {ta \in telegram_auth :
                                    /\ ta.telegram_id = pending.telegram_id
                                    /\ ta.student_id = student_id}
                IN  IF existing # {}
                    THEN IF commit_ok
                         THEN /\ Answer(400)
                              /\ pending_links' = pending_links \ {pending}
                              /\ UNCHANGED telegram_auth
                         ELSE Answer(500) /\ UNCHANGED <<pending_links, telegram_auth>>
                    ELSE IF commit_ok
                         THEN /\ NextAuthId <= MaxAuthId
                              /\ Answer(302)
                              /\ telegram_auth' = telegram_auth \cup
                                   {[id |-> NextAuthId,
                                     telegram_id |-> pending.telegram_id,
                                     student_id |-> student_id,
                                     is_active |-> TRUE, last_auth_at |-> now]}
                              /\ pending_links' = pending_links \ {pending}
                         ELSE Answer(400) /\ UNCHANGED <<pending_links, telegram_auth>>
        /\ UNCHANGED <<now, students, access_tokens, access_logs>>
        /\ UNCHANGED <<limiter_vars, sessions, jar, sheets_manager>>

approve_pending_link(pending_id, student_id, commit_ok) ==
    LET found == {p \in pending_links : p.id = pending_id}
        args == [pending_id |-> pending_id, student_id |-> student_id]
        Answer(status) == resp' = AdminReply("approve_pending_link", args, status)
    IN  /\ resp = Idle
        /\ IF found = {} \/ student_id \notin StudentIds \/ ~students[student_id]
           THEN Answer(404) /\ UNCHANGED <<pending_links, telegram_auth>>
           ELSE LET pending == CHOOSE p \in found : TRUE
                    existing == {ta \in telegram_auth :
                                    /\ ta.telegram_id = pending.telegram_id
                                    /\ ta.student_id = student_id}
                IN  IF existing # {}
                    THEN IF commit_ok
                         THEN /\ Answer(400)
                              /\ pending_links' = pending_links \ {pending}
                              /\ UNCHANGED telegram_auth
                         ELSE Answer(500) /\ UNCHANGED <<pending_links, telegram_auth>>
                    ELSE IF commit_ok
                         THEN /\ NextAuthId <= MaxAuthId
                              /\ Answer(302)
                              /\ telegram_auth' = telegram_auth \cup
                                   {[id |-> NextAuthId,
                                     telegram_id |-> pending.telegram_id,
                                     student_id |-> student_id,
                                     is_active |-> TRUE, last_auth_at |-> now]}
                              /\ pending_links' = pending_links \ {pending}
                         ELSE Answer(400) /\ UNCHANGED <<pending_links, telegram_auth>>
        /\ UNCHANGED <<now, students, access_tokens, access_logs>>
        /\ UNCHANGED <<limiter_vars, sessions, jar, sheets_manager>>

reject_pending_link(pending_id) ==
    /\ resp = Idle
    /\ pending_links' = {p \in pending_links : p.id # pending_id}
    /\ resp' = AdminReply("reject_pending_link", [pending_id |-> pending_id], 302)
    /\ UNCHANGED <<now, students, telegram_auth, access_tokens, access_logs>>
    /\ UNCHANGED <<limiter_vars, sessions, jar, sheets_manager>>

(* /start of the bot.  chat_id is no attribute of the two models: setting it
   on a loaded row changes no column, and the constructor call
   PendingTelegramLink(chat_id=...) raises TypeError, which the handler
   catches and rolls back. *)
start_command(telegram_id) ==
    LET telegram_auths == ActiveLinksOf(telegram_id)
        found == {p \in pending_links : p.telegram_id = telegram_id}
    IN  /\ resp = Idle
        /\ IF Len(telegram_auths) = 0 /\ found # {}
           THEN LET pending == CHOOSE p \in found : \A q \in found : p.id <= q.id
                IN  pending_links' = (pending_links \ {pending}) \cup
                        {[pending EXCEPT !.last_attempt_at = now]}
           ELSE UNCHANGED pending_links
        /\ UNCHANGED <<now, students, telegram_auth, access_tokens, resp,
                       access_logs>>
        /\ UNCHANGED <<limiter_vars, sessions, jar, sheets_manager>>

(* POST /auth/telegram with a valid payload and no other header. *)
SignedPosts ==
    {[NoPost EXCEPT !.endpoint = "/auth/telegram",
                    !.init_data =
                        Some(Signed(bot_token, Some(str(1)), Some(UserJson(t))))] :
        t \in TelegramIds}

PendingIds == 1..2

----------------------------------------------------------------------------
(* The client: the requests it builds from its cookie jar, and what the
   Set-Cookie headers of a response do to the jar.  All cookies are set and
   deleted with the default path and no domain, so a deletion names the
   cookie that was set; their lifetimes (24 h, one year) are longer than
   the time that is followed. *)

JarRequest(cookies) ==
    [NoRequest EXCEPT !.cookie_telegram_id = cookies.telegram_id,
                      !.cookie_selected_student_id = cookies.selected_student_id,
                      !.cookie_access_token = cookies.access_token]

CookiesAfter(cookies, r) ==
    LET set == IF "set_cookies" \in DOMAIN r THEN r.set_cookies ELSE {}
        deleted == IF "delete_cookies" \in DOMAIN r THEN r.delete_cookies ELSE {}
        Value(name, old) ==
            IF \E c \in set : c[1] = name
            THEN Some((CHOOSE c \in set : c[1] = name)[2])
            ELSE IF name \in deleted THEN None ELSE old
    IN  [access_token |->
             IF r.set_access_token # None THEN r.set_access_token
             ELSE Value("access_token", cookies.access_token),
         telegram_id |-> Value("telegram_id", cookies.telegram_id),
         selected_student_id |->
             Value("selected_student_id", cookies.selected_student_id)]

(* The client receives the response and stores its cookies; the request is
   closed. *)
Receive ==
    /\ resp # Idle
    /\ jar' = CookiesAfter(jar, resp)
    /\ resp' = Idle
    /\ UNCHANGED <<now, students, telegram_auth, access_tokens>>
    /\ UNCHANGED <<pending_links, access_logs, limiter_vars, sessions,
                   sheets_manager>>

(* POST /auth/select-student with a valid payload. *)
SelectPosts ==
    {[NoPost EXCEPT !.endpoint = "/auth/select-student",
                    !.init_data =
                        Some(Signed(bot_token, Some(str(1)), Some(UserJson(t)))),
                    !.body_student_slug = Some(s)] :
        t \in TelegramIds, s \in StudentIds}

LogoutPosts ==
    {[NoPost EXCEPT !.endpoint = "/auth/logout", !.x_requested_with = x] :
        x \in {None, Some("XMLHttpRequest")}}

----------------------------------------------------------------------------

Next ==
    \/ \E req \in Requests : GetCurrentStudent(req)
    \/ Return
    \/ \E s \in StudentIds, t \in TelegramIds : link_telegram(s, t)
    \/ \E id \in 1..MaxAuthId : unlink_telegram(id)
    \/ \E s \in StudentIds : DeactivateStudent(s)
    \/ Tick

(* The token operations and the requests that carry a token, over a fixed
   set of links. *)
NextTokens ==
    \/ \E req \in TokenRequests : GetCurrentStudent(req)
    \/ Return
    \/ \E id \in {t.id : t \in access_tokens} : revoke_token(id)
    \/ \E s \in StudentIds : DeactivateStudent(s)
    \/ Tick

(* Tokens alone: generation, revocation, and the requests whose only
   credential is a token in the path, the URL or the access cookie. *)
RevokeTokenStrings ==
    TokenStrings \cup {generate_token_string(n) : n \in 2..MaxTokens}

RevokeRequests ==
    {[NoRequest EXCEPT !.url_token = Some(t)] : t \in RevokeTokenStrings}
    \cup {[NoRequest EXCEPT !.cookie_access_token = Some(t)] :
             t \in RevokeTokenStrings}

NextRevoke ==
    \/ \E req \in RevokeRequests : GetCurrentStudent(req)
    \/ \E s \in StudentIds : generate_token(s)
    \/ \E id \in 1..MaxTokens : revoke_token(id)
    \/ \E s \in StudentIds : DeactivateStudent(s)
    \/ Tick
    \/ Return

(* validate_token and revoke_token followed statement by statement, as the
   database sees the calls of handlers that run at the same time: the query
   loads the row into the session, the commit flushes the UPDATE of the one
   attribute the call has set. *)
Statement(op, pc, arg, row, result) ==
    [op |-> op, pc |-> pc, arg |-> arg, row |-> row, result |-> result]

validate_token_query(i, token) ==
    LET found == {t \in access_tokens : t.token = token /\ t.is_active}
        access_token == CHOOSE t \in found : TRUE
        arg == Some(token)
    IN  /\ resp = Idle
        /\ sessions[i].pc = "closed"
        /\ sessions' = [sessions EXCEPT ![i] =
             IF found = {} THEN Statement("validate_token", "answered", arg, None, None)
             ELSE IF is_expired(access_token) \/ ~students[access_token.student_id]
             THEN Statement("validate_token", "answered", arg, None, None)
             ELSE Statement("validate_token", "loaded", arg, Some(access_token), None)]
        /\ UNCHANGED <<now, students, telegram_auth, access_tokens, resp,
                       pending_links, access_logs, limiter_vars, jar,
                       sheets_manager>>

(* Variant: the commit writes the whole loaded row back. *)
validate_token_commit_row(i) ==
    LET access_token == sessions[i].row[1]
    IN  /\ sessions[i].op = "validate_token"
        /\ sessions[i].pc = "loaded"
        /\ access_tokens' =
             {IF t.id = access_token.id
              THEN [access_token EXCEPT !.last_used_at = Some(now)] ELSE t :
                 t \in access_tokens}
        /\ sessions' = [sessions EXCEPT ![i] =
             Statement("validate_token", "answered", sessions[i].arg,
                       sessions[i].row, Some(access_token.student_id))]
        /\ UNCHANGED <<now, students, telegram_auth, resp,
                       pending_links, access_logs, limiter_vars, jar,
                       sheets_manager>>

validate_token_commit(i) ==
    LET access_token == sessions[i].row[1]
    IN  /\ sessions[i].op = "validate_token"
        /\ sessions[i].pc = "loaded"
        /\ access_tokens' =
             {IF t.id = access_token.id
              THEN [t EXCEPT !.last_used_at = Some(now)] ELSE t :
                 t \in access_tokens}
        /\ sessions' = [sessions EXCEPT ![i] =
             Statement("validate_token", "answered", sessions[i].arg,
                       sessions[i].row, Some(access_token.student_id))]
        /\ UNCHANGED <<now, students, telegram_auth, resp,
                       pending_links, access_logs, limiter_vars, jar,
                       sheets_manager>>

(* Variant: the rollback leaves the bookkeeping write in the table. *)
validate_token_rollback_dirty(i) ==
    LET access_token == sessions[i].row[1]
    IN  /\ sessions[i].op = "validate_token"
        /\ sessions[i].pc = "loaded"
        /\ access_tokens' =
             {IF t.id = access_token.id
              THEN [t EXCEPT !.last_used_at = Some(now)] ELSE t :
                 t \in access_tokens}
        /\ sessions' = [sessions EXCEPT ![i] =
             Statement("validate_token", "answered", sessions[i].arg,
                       sessions[i].row, None)]
        /\ UNCHANGED <<now, students, telegram_auth, resp,
                       pending_links, access_logs, limiter_vars, jar,
                       sheets_manager>>

(* db.commit() raises: the except branch rolls back and returns None. *)
validate_token_rollback(i) ==
    /\ sessions[i].op = "validate_token"
    /\ sessions[i].pc = "loaded"
    /\ sessions' = [sessions EXCEPT ![i] =
         Statement("validate_token", "answered", sessions[i].arg,
                   sessions[i].row, None)]
    /\ UNCHANGED <<now, students, telegram_auth, access_tokens, resp,
                   pending_links, access_logs, limiter_vars, jar,
                       sheets_manager>>

revoke_token_query(i, token_id) ==
    LET found == {t \in access_tokens : t.id = token_id}
    IN  /\ resp = Idle
        /\ sessions[i].pc = "closed"
        /\ sessions' = [sessions EXCEPT ![i] =
             IF found = {}
             THEN Statement("revoke_token", "answered", Some(token_id), None, None)
             ELSE Statement("revoke_token", "loaded", Some(token_id),
                            Some(CHOOSE t \in found : TRUE), None)]
        /\ UNCHANGED <<now, students, telegram_auth, access_tokens, resp,
                       pending_links, access_logs, limiter_vars, jar,
                       sheets_manager>>

revoke_token_commit(i) ==
    LET token == sessions[i].row[1]
    IN  /\ sessions[i].op = "revoke_token"
        /\ sessions[i].pc = "loaded"
        /\ access_tokens' =
             {IF t.id = token.id THEN [t EXCEPT !.is_active = FALSE] ELSE t :
                 t \in access_tokens}
        /\ sessions' = [sessions EXCEPT ![i] =
             Statement("revoke_token", "answered", sessions[i].arg,
                       sessions[i].row, None)]
        /\ UNCHANGED <<now, students, telegram_auth, resp,
                       pending_links, access_logs, limiter_vars, jar,
                       sheets_manager>>

(* get_db_session closes the session when the request is answered. *)
SessionClose(i) ==
    /\ sessions[i].pc = "answered"
    /\ sessions' = [sessions EXCEPT ![i] = Closed]
    /\ UNCHANGED <<now, students, telegram_auth, access_tokens, resp,
                   pending_links, access_logs, limiter_vars, jar,
                       sheets_manager>>

NextRace ==
    \/ \E i \in SessionIds, token \in TokenStrings : validate_token_query(i, token)
    \/ \E i \in SessionIds : validate_token_commit(i)
    \/ \E i \in SessionIds : validate_token_rollback(i)
    \/ \E i \in SessionIds, id \in 1..MaxTokens : revoke_token_query(i, id)
    \/ \E i \in SessionIds : revoke_token_commit(i)
    \/ \E i \in SessionIds : SessionClose(i)
    \/ \E s \in StudentIds : DeactivateStudent(s)
    \/ Tick

(* validate_init_data alone, applied to query strings: those signed under
   the bot token or another key with every combination of auth_date and
   user, and those one edit away from them, which keep the hash. *)
BadJson == [ok |-> FALSE, id |-> None]

AuthDates == {None, Some(<<"x">>)} \cup {Some(str(n)) : n \in 0..MaxTime}

Users == {None, Some(BadJson)} \cup {Some(UserJson(t)) : t \in TelegramIds \cup {"666"}}

SignedQueries == {Signed(k, a, u) : k \in {bot_token, "forged"}, a \in AuthDates, u \in Users}

RemoveAt(q, i) == SubSeq(q, 1, i - 1) \o SubSeq(q, i + 1, Len(q))

InsertAt(q, i, kv) == SubSeq(q, 1, i - 1) \o <<kv>> \o SubSeq(q, i, Len(q))

ReplaceAt(q, i, v) == [q EXCEPT ![i] = <<q[i][1], v>>]

(* The value an edit gives to the field of a key. *)
ChangedValue(key) ==
    CASE key = "auth_date" -> Some(str(0))
      [] key = "query_id" -> Some(<<"8">>)
      [] OTHER -> Some(UserJson("666"))

(* The pairs an edit may add. *)
AddedFields ==
    {<<"query_id", None>>, <<"query_id", Some(<<"7">>)>>,
     <<"user", Some(UserJson("666"))>>, <<"auth_date", Some(str(1))>>}

EditedQueries ==
    UNION {{RemoveAt(q, i) : i \in 1..Len(q)}
           \cup {InsertAt(q, i, kv) : i \in {1, Len(q) + 1}, kv \in AddedFields}
           \cup {ReplaceAt(q, i, ChangedValue(q[i][1])) : i \in 1..Len(q) - 1} :
           q \in {Signed(bot_token, a, u) : a \in AuthDates, u \in Users}}

Queries == SignedQueries \cup EditedQueries

ValidateInitData(init_data) ==
    /\ resp = Idle
    /\ resp' = [op |-> "validate_init_data",
                req |-> [NoRequest EXCEPT !.init_data = Some(init_data)],
                student |-> None, auth |-> None, raised |-> FALSE,
                set_access_token |-> None,
                user_data |-> validate_init_data(init_data)]
    /\ UNCHANGED <<now, students, telegram_auth, access_tokens>>
    /\ UNCHANGED aux_vars

NextPayload ==
    \/ \E init_data \in Queries : ValidateInitData(init_data)
    \/ Tick
    \/ Return

Spec == Init /\ [][Next]_vars

SpecPayload == Init /\ [][NextPayload]_vars

SpecRace == Init /\ [][NextRace]_vars

SpecRevoke == Init /\ [][NextRevoke]_vars

SpecTokens == InitTokens /\ [][NextTokens]_vars

(* GET /t/{token} against the one token of the initial state while it is
   revoked, expires, and its student is deactivated. *)
NextAccess ==
    \/ \E token \in TokenStrings : token_access(token)
    \/ \E id \in {t.id : t \in access_tokens} : revoke_token(id)
    \/ \E s \in StudentIds : DeactivateStudent(s)
    \/ Tick
    \/ Return

SpecAccess == Init /\ [][NextAccess]_vars

(* One client: it signs in through POST /auth/telegram, POST
   /auth/select-student or GET /t/{token}, requests pages with the cookies of its jar, with or without the token in
   the URL, and signs out. *)
NextLogout ==
    \/ \E u \in {None, Some("tokA")} :
          GetCurrentStudent([JarRequest(jar) EXCEPT !.url_token = u])
    \/ \E token \in {"tokA"} : token_access(token)
    \/ \E req \in SignedPosts \cup SelectPosts \cup LogoutPosts :
          Post([req EXCEPT !.cookie_telegram_id = jar.telegram_id])
    \/ Receive

SpecLogout == InitTokens /\ [][NextLogout]_vars

(* A client that signs in through Telegram and then sends page requests
   with the cookies it was given, while time passes and the operator
   unlinks telegram ids and deactivates students. *)
NextSession ==
    \/ \E req \in SignedPosts \cup SelectPosts :
          Post([req EXCEPT !.cookie_telegram_id = jar.telegram_id])
    \/ GetCurrentStudent(JarRequest(jar))
    \/ Receive
    \/ \E id \in 1..MaxAuthId : unlink_telegram(id)
    \/ \E s \in StudentIds : DeactivateStudent(s)
    \/ Tick

SpecSession == InitTokens /\ [][NextSession]_vars

(* The handlers that write the audit table: GET /t/{token}, GET /student
   with the token in the URL or a payload header, and POST /auth/telegram;
   with the operator's operations on the rows the audit rows refer to: the
   token, its student, the links of that student and the pending links. *)
AuditRequests ==
    {[NoRequest EXCEPT !.url_token = Some("tokA")]} \cup PayloadRequests

AuditPosts ==
    SignedPosts \cup
    {[NoPost EXCEPT !.endpoint = "/auth/telegram",
                    !.init_data =
                        Some(Signed("forged", Some(str(1)), Some(UserJson(t))))] :
        t \in TelegramIds}

NextAudit ==
    \/ \E token \in TokenStrings : token_access(token)
    \/ \E req \in AuditRequests, outcome \in PageOutcomes :
          student_page(req, outcome)
    \/ \E req \in AuditPosts : Post(req)
    \/ \E s \in {t.student_id : t \in access_tokens}, t \in TelegramIds :
          link_telegram(s, t)
    \/ \E id \in {ta.id : ta \in telegram_auth} : unlink_telegram(id)
    \/ \E id \in {t.id : t \in access_tokens} : revoke_token(id)
    \/ \E id \in {p.id : p \in pending_links} : reject_pending_link(id)
    \/ \E s \in {t.student_id : t \in access_tokens} : DeactivateStudent(s)
    \/ Return

SpecAudit == Init /\ [][NextAudit]_vars

(* The rate limiter alone: calls from the addresses, the sweep, the clock. *)
NextLimiter ==
    \/ \E ip \in Ips : check_rate_limit(ip)
    \/ cleanup_loop
    \/ ClockTick

SpecLimiter == Init /\ [][NextLimiter]_vars

(* The values of the selected_student_id cookie that name no student: the
   cookie is absent, empty, "0", or not a numeral; and the numeral of
   student 1. *)
FallbackSelected == {None, Some(<<>>), Some(<<"0">>), Some(<<"x">>), Some(str(1))}

(* Requests whose credentials are cookies only. *)
FallbackRequests ==
    {[NoRequest EXCEPT !.cookie_telegram_id = ct,
                       !.cookie_selected_student_id = cs,
                       !.cookie_access_token = ca] :
        ct \in {None} \cup {Some(t) : t \in TelegramIds},
        cs \in FallbackSelected,
        ca \in {None} \cup {Some(t) : t \in TokenStrings}}

(* The cookie rules of the resolver over the life of the token. *)
NextFallback ==
    \/ \E req \in FallbackRequests : GetCurrentStudent(req)
    \/ Return
    \/ \E id \in {t.id : t \in access_tokens} : revoke_token(id)
    \/ \E s \in StudentIds : DeactivateStudent(s)
    \/ Tick

SpecFallback == InitTokens /\ [][NextFallback]_vars

(* The two limiters behind rate_limit_middleware: submissions to POST
   /admin/login from the addresses, other requests from one address, and
   the sweep of login_rate_limiter. *)
NextStrict ==
    \/ \E ip \in Ips : rate_limit_middleware(ip, <<"admin", "login">>, "POST")
    \/ \E path \in Paths, method \in Methods :
          rate_limit_middleware("10.0.0.1", path, method)
    \/ login_cleanup_loop
    \/ ClockTick

SpecStrict == Init /\ [][NextStrict]_vars

(* GoogleSheetsManager alone.  _fetch_with_retry is synchronous code: once
   called, its loop goes on until it returns or raises. *)
FetchStep ==
    \E outcome \in FetchOutcomes, connected \in BOOLEAN, data \in SheetData :
        fetch_attempt(outcome, connected, data)

NextSheets ==
    \/ \E worksheet_name \in Worksheets, use_cache \in BOOLEAN :
          get_student_history(worksheet_name, use_cache)
    \/ FetchStep
    \/ SheetsReturn
    \/ SheetsTick

SpecSheets == Init /\ [][NextSheets]_vars /\ WF_vars(FetchStep)

(* The POST entry points and the page requests with a payload header, over
   a fixed set of links. *)
NextPosts ==
    \/ \E req \in PostRequests : Post(req)
    \/ \E req \in PayloadRequests : GetCurrentStudent(req)
    \/ Return
    \/ \E s \in StudentIds : DeactivateStudent(s)

SpecPosts == InitTokens /\ [][NextPosts]_vars

(* The life of links and pending links at one instant: attempts through
   POST /auth/telegram, the bot, and the operator. *)
NextLinks ==
    \/ \E req \in SignedPosts : Post(req)
    \/ \E t \in TelegramIds : start_command(t)
    \/ \E id \in PendingIds, s \in 1..NStudents + 1, commit_ok \in BOOLEAN :
          approve_pending_link(id, s, commit_ok)
    \/ \E id \in PendingIds : reject_pending_link(id)
    \/ \E s \in StudentIds, t \in TelegramIds : link_telegram(s, t)
    \/ \E id \in 1..MaxAuthId : unlink_telegram(id)
    \/ \E s \in StudentIds : DeactivateStudent(s)
    \/ Return

SpecLinks == Init /\ [][NextLinks]_vars

(* Page requests whose credentials are the payload header and the session
   cookies. *)
TouchRequests ==
    {r \in SessionRequests :
        /\ r.cookie_access_token = None
        /\ r.init_data # None \/ r.cookie_telegram_id # None}

(* The links of a telegram id while time passes: page requests through the
   payload and the session cookies, and POST /auth/telegram. *)
NextTouch ==
    \/ \E req \in SignedPosts : Post(req)
    \/ \E req \in TouchRequests : GetCurrentStudent(req)
    \/ Tick
    \/ Return

SpecTouch == InitTokens /\ [][NextTouch]_vars

----------------------------------------------------------------------------
(* Vocabulary of the properties *)

IsResolve == resp.op = "get_current_student"

TokenRows(token) == {t \in access_tokens : t.token = token}

(* The token names a row that is active, not past its expiry and bound to
   an active student. *)
TokenAcceptable(token) ==
    \E t \in TokenRows(token) :
        /\ t.is_active
        /\ t.expires_at = None \/ now <= t.expires_at[1]
        /\ students[t.student_id]

LinkRows(telegram_id, student_id) ==
    {ta \in telegram_auth :
        ta.telegram_id = telegram_id /\ ta.student_id = student_id}

(* The active links of telegram_id whose student is active. *)
LiveLinks(telegram_id) ==
    {ta \in telegram_auth :
        ta.telegram_id = telegram_id /\ ta.is_active /\ students[ta.student_id]}

FirstCreated(links) == CHOOSE ta \in links : \A other \in links : ta.id <= other.id

NoUrlToken(req) == ~TruthyStr(req.url_token)

(* The request carries a payload that validates for telegram_id. *)
ValidPayloadFor(req, telegram_id) ==
    /\ TruthyInitData(req.init_data)
    /\ validate_init_data(req.init_data[1]) # None
    /\ validate_init_data(req.init_data[1])[1].telegram_id = telegram_id

SessionCookies(req, telegram_id, student_id) ==
    /\ req.cookie_telegram_id = Some(telegram_id)
    /\ req.cookie_selected_student_id = Some(str(student_id))

(* The student was resolved through token (URL, /t/ path or cookie). *)
ResolvedByToken(token) ==
    /\ resp.student # None
    /\ \/ resp.op = "token_access" /\ resp.req.path_token = Some(token)
       \/ /\ IsResolve
          /\ resp.auth # None
          /\ resp.auth[1].auth_method = "token"
          /\ resp.auth[1].auth_identifier = token

----------------------------------------------------------------------------
(* C1: a URL token that is rejected ends the resolution Unauthenticated,
   whatever the payload header and the cookies of the request are. *)
C1_RejectedUrlTokenIsFinal ==
    (IsResolve /\ TruthyStr(resp.req.url_token)
        /\ ~TokenAcceptable(resp.req.url_token[1]))
    => (resp.student = None /\ ~resp.raised)

(* A rejected URL token next to a valid payload, a linked session pair and
   a valid access_token cookie. *)
C1_Witness ==
    /\ IsResolve
    /\ resp.req.url_token = Some("zzz")
    /\ ~TokenAcceptable("zzz")
    /\ \E t \in TelegramIds, s \in StudentIds :
          /\ ValidPayloadFor(resp.req, t)
          /\ SessionCookies(resp.req, t, s)
          /\ LinkRows(t, s) \cap LiveLinks(t) # {}
    /\ resp.req.cookie_access_token = Some("tokA")
    /\ TokenAcceptable("tokA")
    /\ resp.student = None

(* C2, as claimed: without a URL token, a payload header that does not
   validate ends the resolution Unauthenticated; the cookies are not
   consulted. *)
C2_InvalidPayloadIsFinal ==
    (IsResolve /\ NoUrlToken(resp.req)
        /\ TruthyInitData(resp.req.init_data)
        /\ validate_init_data(resp.req.init_data[1]) = None)
    => resp.student = None

(* C3: no resolution and no token validation returns a student whose
   is_active flag is false. *)
C3_InactiveStudentUnreachable ==
    (resp.op \in {"get_current_student", "token_access"} /\ resp.student # None)
    => students[resp.student[1]]

(* An inactive student still referenced by an active link: a valid payload
   of that telegram id is answered Unauthenticated. *)
C3_Witness ==
    /\ IsResolve
    /\ NoUrlToken(resp.req)
    /\ \E ta \in telegram_auth :
          /\ ta.is_active
          /\ ~students[ta.student_id]
          /\ ValidPayloadFor(resp.req, ta.telegram_id)
    /\ resp.student = None

(* C4: unlink_telegram removes the row of the pair, and while the pair
   (t, s) has no row, the session cookies (t, s) resolve Unauthenticated
   and a valid payload of t does not resolve to s. *)
C4_UnlinkStep ==
    \A ta \in telegram_auth :
        (\A other \in telegram_auth' : other.id # ta.id)
        => LinkRows(ta.telegram_id, ta.student_id)' = {}

C4_SessionNeedsRow ==
    \A t \in TelegramIds, s \in 1..NStudents + 1 :
        (IsResolve /\ NoUrlToken(resp.req) /\ resp.req.init_data = None
            /\ SessionCookies(resp.req, t, s) /\ LinkRows(t, s) = {})
        => (resp.student = None /\ ~resp.raised)

C4_PayloadNeedsRow ==
    \A t \in TelegramIds, s \in StudentIds :
        (IsResolve /\ NoUrlToken(resp.req) /\ ValidPayloadFor(resp.req, t)
            /\ LinkRows(t, s) = {})
        => resp.student # Some(s)

C4_UnlinkTakesEffect ==
    /\ [][C4_UnlinkStep]_vars
    /\ []C4_SessionNeedsRow
    /\ []C4_PayloadNeedsRow

(* The first link of "555" was unlinked (only row 2 is left) and the
   unchanged cookies of its active student are answered Unauthenticated. *)
C4_Witness ==
    /\ IsResolve
    /\ NoUrlToken(resp.req) /\ resp.req.init_data = None
    /\ {ta.id : ta \in telegram_auth} = {2}
    /\ \E s \in StudentIds :
          /\ SessionCookies(resp.req, "555", s)
          /\ students[s]
          /\ LinkRows("555", s) = {}
    /\ resp.student = None

(* C5: no student is resolved through a token that is deactivated or whose
   expires_at is earlier than the current time. *)
C5_ExpiredOrRevokedTokenRejected ==
    \A t \in access_tokens :
        (~t.is_active \/ (t.expires_at # None /\ t.expires_at[1] < now))
        => ~ResolvedByToken(t.token)

(* An active token that was used successfully, is now past its expiry and
   is rejected when the URL carries it. *)
C5_Witness ==
    /\ resp.op = "get_current_student"
    /\ \E t \in access_tokens :
          /\ resp.req.url_token = Some(t.token)
          /\ t.is_active
          /\ students[t.student_id]
          /\ t.last_used_at # None
          /\ t.expires_at # None /\ t.expires_at[1] < now
    /\ resp.student = None
    /\ resp.set_access_token = None

(* C6: with no URL token and no payload, the session cookies (t, s)
   resolve to s exactly when an active row of the pair exists and s is
   active, and to Unauthenticated otherwise. *)
C6_SessionPairExact ==
    \A t \in TelegramIds, s \in 1..NStudents + 1 :
        (IsResolve /\ NoUrlToken(resp.req) /\ resp.req.init_data = None
            /\ SessionCookies(resp.req, t, s))
        => /\ ~resp.raised
           /\ IF LinkRows(t, s) \cap LiveLinks(t) # {}
              THEN resp.student = Some(s)
              ELSE resp.student = None

(* The pair of the cookies has no row, the telegram id is linked to
   another active student and the access_token cookie is valid. *)
C6_Witness ==
    /\ IsResolve
    /\ NoUrlToken(resp.req) /\ resp.req.init_data = None
    /\ \E t \in TelegramIds, s \in StudentIds :
          /\ SessionCookies(resp.req, t, s)
          /\ LinkRows(t, s) = {}
          /\ LiveLinks(t) # {}
    /\ resp.req.cookie_access_token = Some("tokA")
    /\ TokenAcceptable("tokA")
    /\ resp.student = None

(* C7: a URL token that validates resolves to the student of the token
   with auth_method 'token', and the resolution leaves telegram_auth
   unchanged. *)
C7_UrlTokenResult ==
    \A t \in access_tokens :
        (IsResolve /\ resp.req.url_token = Some(t.token)
            /\ TokenAcceptable(t.token))
        => /\ resp.student = Some(t.student_id)
           /\ resp.auth # None
           /\ resp.auth[1].auth_method = "token"
           /\ resp.auth[1].auth_identifier = t.token

C7_UrlTokenFrame ==
    (resp'.op = "get_current_student" /\ TruthyStr(resp'.req.url_token)
        /\ resp'.student # None)
    => telegram_auth' = telegram_auth

C7_ValidUrlTokenWins ==
    /\ []C7_UrlTokenResult
    /\ [][C7_UrlTokenFrame]_vars

(* The URL token of student 1 next to a valid payload and session cookies
   that resolve to another student. *)
C7_Witness ==
    /\ IsResolve
    /\ resp.req.url_token = Some("tokA")
    /\ resp.student = Some(1)
    /\ \E t \in TelegramIds, s \in StudentIds \ {1} :
          /\ ValidPayloadFor(resp.req, t)
          /\ SessionCookies(resp.req, t, s)
          /\ LiveLinks(t) = LinkRows(t, s)
          /\ LiveLinks(t) # {}

(* C8: for a telegram id with two or more live links, a valid payload
   without selected_student_id cookie resolves to the same student when
   the call is repeated: the last_auth_at written by the call does not
   change the answer to the same request. *)
C8_DefaultPickIdempotent ==
    \A t \in TelegramIds :
        (IsResolve /\ NoUrlToken(resp.req) /\ ValidPayloadFor(resp.req, t)
            /\ resp.req.cookie_selected_student_id = None
            /\ Cardinality(LiveLinks(t)) >= 2)
        => /\ resp.student # None
           /\ get_current_student(resp.req).student = resp.student

(* The call has refreshed last_auth_at of the picked link, which is now
   newer than that of another live link. *)
C8_Witness ==
    /\ IsResolve
    /\ NoUrlToken(resp.req)
    /\ resp.req.cookie_selected_student_id = None
    /\ resp.student # None
    /\ \E t \in TelegramIds :
          /\ ValidPayloadFor(resp.req, t)
          /\ \E a, b \in LiveLinks(t) :
                /\ a.student_id = resp.student[1]
                /\ b.student_id # resp.student[1]
                /\ a.last_auth_at > b.last_auth_at

(* C9: with two or more live links, a valid payload and a
   selected_student_id cookie naming the student of one of them resolve to
   that student. *)
C9_SelectionCookieHonoured ==
    \A t \in TelegramIds, s \in StudentIds :
        (IsResolve /\ NoUrlToken(resp.req) /\ ValidPayloadFor(resp.req, t)
            /\ resp.req.cookie_selected_student_id = Some(str(s))
            /\ Cardinality(LiveLinks(t)) >= 2
            /\ LinkRows(t, s) \cap LiveLinks(t) # {})
        => resp.student = Some(s)

(* The cookie names the student of a link that is not the first one. *)
C9_Witness ==
    /\ IsResolve
    /\ NoUrlToken(resp.req)
    /\ \E t \in TelegramIds, s \in StudentIds :
          /\ ValidPayloadFor(resp.req, t)
          /\ resp.req.cookie_selected_student_id = Some(str(s))
          /\ Cardinality(LiveLinks(t)) >= 2
          /\ LinkRows(t, s) \cap LiveLinks(t) # {}
          /\ FirstCreated(LiveLinks(t)).student_id # s
          /\ resp.student = Some(s)

(* C10, as claimed: with two or more live links and a valid payload, a
   selected_student_id cookie that is absent, malformed or names no
   matched student resolves to the student of the first created link. *)
C10_FallbackToFirstLink ==
    \A t \in TelegramIds :
        (IsResolve /\ NoUrlToken(resp.req) /\ ValidPayloadFor(resp.req, t)
            /\ Cardinality(LiveLinks(t)) >= 2
            /\ \A s \in StudentIds :
                  LinkRows(t, s) \cap LiveLinks(t) # {}
                  => resp.req.cookie_selected_student_id # Some(str(s)))
        => /\ ~resp.raised
           /\ resp.student = Some(FirstCreated(LiveLinks(t)).student_id)

----------------------------------------------------------------------------
(* Vocabulary of the rate limiter properties *)

(* The calls of ip admitted in the 60 s that end now. *)
AdmittedInWindow(ip) == Len(Recent(admitted[ip], clock - window))

(* How often the time t occurs in a list of timestamps. *)
Occurrences(times, t) == Len(SelectSeq(times, LAMBDA x : x = t))

(* C11: in every rolling 60 s window at most requests_per_minute calls of an
   address are admitted; a call is answered 429 exactly when
   requests_per_minute calls of the address were admitted in the 60 s before
   it, so the first requests_per_minute calls of a window succeed, the next
   one is refused, and a call succeeds again once the earlier ones left the
   window. *)
C11_WindowCapacity ==
    /\ \A ip \in Ips : AdmittedInWindow(ip) <= requests_per_minute
    /\ (checked # None /\ checked[1].at = clock)
       => IF checked[1].status = Some(429)
          THEN AdmittedInWindow(checked[1].ip) = requests_per_minute
          ELSE /\ AdmittedInWindow(checked[1].ip) >= 1
               /\ admitted[checked[1].ip][Len(admitted[checked[1].ip])] = clock

(* Witness: in a window that began after the first one had passed, the
   address has used its capacity and the next call is refused. *)
C11_Witness ==
    /\ checked # None
    /\ checked[1].status = Some(429)
    /\ checked[1].at = clock
    /\ clock >= window
    /\ AdmittedInWindow(checked[1].ip) = requests_per_minute
    /\ admitted[checked[1].ip][1] = clock

(* C12: whatever the order of the calls of the addresses and of the sweep,
   every admitted call of the current window is still counted in
   self.requests, and no address has more than requests_per_minute admitted
   calls in a window. *)
C12_NoAdmittedCallUncounted ==
    \A ip \in Ips :
        /\ AdmittedInWindow(ip) <= requests_per_minute
        /\ \A t \in 0..MaxClock + 1 :
              t > clock - window
              => Occurrences(admitted[ip], t) <= Occurrences(RequestsOf(ip), t)

(* Witness: the sweep has run between two admitted calls of one window of
   an address, while the other address was also served. *)
C12_Witness ==
    /\ swept_at = clock
    /\ \E ip \in Ips :
          /\ AdmittedInWindow(ip) = requests_per_minute
          /\ admitted[ip][1] < clock
          /\ admitted[ip][Len(admitted[ip])] = clock
    /\ \A ip \in Ips : ip \in DOMAIN requests

----------------------------------------------------------------------------
(* Vocabulary of the properties of the POST entry points *)

IsPost == resp.op = "post"

(* The payload header of the request is present and validates. *)
PayloadVerifies(req) ==
    TruthyInitData(req.init_data) /\ validate_init_data(req.init_data[1]) # None

PendingRows(telegram_id) == {p \in pending_links : p.telegram_id = telegram_id}

(* C13, as claimed: a POST passes require_csrf only with a payload header
   whose signature verifies or with X-Requested-With: XMLHttpRequest; with
   only a payload header that fails verification it is answered 403. *)
C13_CsrfNeedsVerifiedPayload ==
    (IsPost /\ resp.status # 403)
    => \/ PayloadVerifies(resp.req)
       \/ resp.req.x_requested_with = Some("XMLHttpRequest")

(* C14: a POST with neither a payload header nor X-Requested-With:
   XMLHttpRequest is answered 403, changes no row of pending_telegram_links,
   telegram_auth and access_logs, and sets or clears no cookie. *)
C14_Step ==
    (/\ resp = Idle
     /\ resp'.op = "post"
     /\ resp'.req.init_data = None
     /\ resp'.req.x_requested_with # Some("XMLHttpRequest"))
    => /\ resp'.status = 403
       /\ UNCHANGED <<pending_links, telegram_auth, access_logs>>
       /\ resp'.set_cookies = {}
       /\ resp'.delete_cookies = {}

C14_MissingCsrfRejected == [][C14_Step]_vars

(* Witness: all three tables hold rows and a POST /auth/telegram without the
   two headers was answered 403. *)
C14_Witness ==
    /\ IsPost
    /\ resp.req.endpoint = "/auth/telegram"
    /\ resp.req.init_data = None
    /\ resp.req.x_requested_with = Some("fetch")
    /\ resp.status = 403
    /\ pending_links # {}
    /\ telegram_auth # {}
    /\ access_logs # <<>>

(* C15, as claimed: a valid payload of a telegram id without an active link
   to an active student, validated by get_current_student or by POST
   /auth/telegram, ends Unauthenticated and leaves exactly one
   pending_telegram_links row of the id. *)
C15_UnmatchedPayloadRecorded ==
    \A t \in TelegramIds :
        (/\ \/ IsResolve
            \/ IsPost /\ resp.req.endpoint = "/auth/telegram"
         /\ NoUrlToken(resp.req)
         /\ ValidPayloadFor(resp.req, t)
         /\ Len(active_auths_of(t)) = 0)
        => /\ resp.student = None
           /\ Cardinality(PendingRows(t)) = 1

----------------------------------------------------------------------------
(* Properties of links and pending links *)

(* C16: telegram_auth never holds two rows of one pair (telegram_id,
   student_id); a telegram id may have rows of several students. *)
C16_PairUnique ==
    \A a \in telegram_auth, b \in telegram_auth :
        (a.telegram_id = b.telegram_id /\ a.student_id = b.student_id) => a = b

(* Witness: a telegram id has rows of two students, and the approval of a
   pending link for one of these pairs was refused. *)
C16_Witness ==
    /\ resp.op = "approve_pending_link"
    /\ resp.status = 400
    /\ \E a \in telegram_auth, b \in telegram_auth :
          /\ a.telegram_id = b.telegram_id
          /\ a.student_id # b.student_id
          /\ a.student_id = resp.req.student_id

(* C17: pending_telegram_links never holds two rows of one telegram id. *)
C17_PendingUnique ==
    \A t \in TelegramIds : Cardinality(PendingRows(t)) <= 1

(* Witness: a second unmatched attempt of a telegram id was answered; its
   row counts two attempts. *)
C17_Witness ==
    /\ IsPost
    /\ ~resp.success
    /\ \E t \in TelegramIds :
          /\ ValidPayloadFor(resp.req, t)
          /\ \E p \in PendingRows(t) : p.attempt_count = 2
    /\ Len(access_logs) = 2

(* C18: a call of approve_pending_link either leaves pending_telegram_links
   and telegram_auth unchanged, or deletes the pending row and leaves a link
   of (pending.telegram_id, student_id) behind; every row it adds to
   telegram_auth is of an existing, active student. *)
C18_Step ==
    (resp = Idle /\ resp'.op = "approve_pending_link")
    => /\ \/ UNCHANGED <<pending_links, telegram_auth>>
          \/ \E p \in pending_links :
                /\ p.id = resp'.req.pending_id
                /\ pending_links' = pending_links \ {p}
                /\ telegram_auth \subseteq telegram_auth'
                /\ \E ta \in telegram_auth' :
                      /\ ta.telegram_id = p.telegram_id
                      /\ ta.student_id = resp'.req.student_id
       /\ \A ta \in telegram_auth' \ telegram_auth :
             ta.student_id \in StudentIds /\ students[ta.student_id]

C18_ApproveAtomic == [][C18_Step]_vars

(* Witness: with an inactive student in the system, an approval has consumed
   the pending row and created the link. *)
C18_Witness ==
    /\ resp.op = "approve_pending_link"
    /\ resp.status = 302
    /\ pending_links = {}
    /\ \E ta \in telegram_auth : ta.student_id = resp.req.student_id
    /\ \E s \in StudentIds : ~students[s]

----------------------------------------------------------------------------
(* Properties of access tokens *)

(* The token strings a token-only request presents. *)
PresentedTokens(req) ==
    {x[1] : x \in {req.path_token, req.url_token, req.cookie_access_token} \ {None}}

IsRevoked(token) ==
    /\ \E t \in access_tokens : t.token = token
    /\ \A t \in access_tokens : t.token = token => ~t.is_active

(* C19: revoke_token sets is_active of the addressed row to FALSE and changes
   nothing else of any table; no step deletes a row of access_tokens, changes
   its token string, student or expiry, or sets is_active back to TRUE; a
   request that presents only revoked tokens resolves to no student. *)
C19_Step ==
    /\ \A t \in access_tokens : \E u \in access_tokens' :
          /\ u.id = t.id
          /\ u.token = t.token
          /\ u.student_id = t.student_id
          /\ u.expires_at = t.expires_at
          /\ (~t.is_active => ~u.is_active)
    /\ (resp = Idle /\ resp'.op = "revoke_token")
       => /\ access_tokens' =
               {IF t.id = resp'.req.token_id
                THEN [t EXCEPT !.is_active = FALSE] ELSE t : t \in access_tokens}
          /\ UNCHANGED <<students, telegram_auth, pending_links, access_logs>>
    /\ (/\ resp = Idle
        /\ resp'.op \in {"token_access", "get_current_student"}
        /\ PresentedTokens(resp'.req) # {}
        /\ \A token \in PresentedTokens(resp'.req) : IsRevoked(token))
       => resp'.student = None

C19_RevokeFrame == [][C19_Step]_vars

(* Witness: token tokA was used, then revoked; before its expiry and with its
   student active it is refused, while a second token is still active. *)
C19_Witness ==
    /\ resp.op = "get_current_student"
    /\ resp.req.url_token = Some("tokA")
    /\ resp.student = None
    /\ now = 1
    /\ \E t \in access_tokens :
          /\ t.token = "tokA"
          /\ ~t.is_active
          /\ t.last_used_at # None
          /\ students[t.student_id]
    /\ \E u \in access_tokens : u.token # "tokA" /\ u.is_active

(* C20: however the statements of validate_token and revoke_token on one
   token interleave, the commit of validate_token leaves is_active and
   expires_at of every row as they are, and a validate_token call whose
   query runs after the revoke was committed answers with no student. *)
C20_Step ==
    \A i \in SessionIds :
        /\ (/\ sessions[i].op = "validate_token"
            /\ sessions[i].pc = "loaded"
            /\ sessions'[i].pc = "answered")
           => \A t \in access_tokens : \E u \in access_tokens' :
                 /\ u.id = t.id
                 /\ u.is_active = t.is_active
                 /\ u.expires_at = t.expires_at
        /\ (/\ sessions[i].pc = "closed"
            /\ sessions'[i].op = "validate_token"
            /\ IsRevoked(sessions'[i].arg[1]))
           => /\ sessions'[i].pc = "answered"
              /\ sessions'[i].result = None

C20_RevokeRace == [][C20_Step]_vars

(* Witness: a validate_token call and a revoke_token call each loaded the
   row before the other committed; both have committed, the row is revoked
   and carries the last_used_at of the validate_token call, which answered
   with the student. *)
C20_Witness ==
    \E i \in SessionIds, j \in SessionIds :
        /\ sessions[i].op = "validate_token"
        /\ sessions[i].pc = "answered"
        /\ sessions[i].result # None
        /\ sessions[j].op = "revoke_token"
        /\ sessions[j].pc = "answered"
        /\ sessions[j].row # None
        /\ sessions[j].row[1].last_used_at = None
        /\ sessions[j].row[1].is_active
        /\ \E t \in access_tokens :
              /\ t.id = sessions[j].row[1].id
              /\ t.id = sessions[i].row[1].id
              /\ ~t.is_active
              /\ t.last_used_at = Some(now)

----------------------------------------------------------------------------
(* Properties of the resolver's result and of its error handling *)

(* The request presents a credential of rule 1, 2 or 3: a URL token, a
   payload header, or the pair of session cookies. *)
PresentsRule123(req) ==
    \/ TruthyStr(req.url_token)
    \/ TruthyInitData(req.init_data)
    \/ /\ TruthyStr(req.cookie_telegram_id)
       /\ req.cookie_selected_student_id # None

(* C22, as claimed: a resolution that returns a student leaves the method
   and the identifier used in request.state.auth (and the telegram id on the
   telegram paths), and a resolution that ends Unauthenticated under rules
   1-3 leaves a tag with the reason there as well. *)
C22_ResolutionTagged ==
    IsResolve =>
        /\ resp.student # None
           => /\ resp.auth # None
              /\ resp.auth[1].auth_method \in {"token", "telegram"}
              /\ resp.auth[1].auth_method = "telegram"
                 => resp.auth[1].telegram_id = Some(resp.auth[1].auth_identifier)
        /\ (resp.student = None /\ ~resp.raised /\ PresentsRule123(resp.req))
           => resp.auth # None

(* C23, as claimed: get_current_student raises for no request; absent,
   malformed and invalid credentials are answered Unauthenticated. *)
C23_NeverRaises ==
    IsResolve => ~resp.raised

----------------------------------------------------------------------------
(* Properties of validate_init_data *)

IsValidate == resp.op = "validate_init_data"

(* The query string that was validated, and the fields it is parsed to. *)
Validated == resp.req.init_data[1]

ParamsOf(q) ==
    LET all == dict(parse_qsl(q))
    IN  [k \in DOMAIN all \ {"hash"} |-> all[k]]

(* auth_date as the validator reads it: 0 when the field is missing, None
   when it is no numeral. *)
AuthDateOf(q) ==
    IF "auth_date" \in DOMAIN ParamsOf(q)
    THEN int(ParamsOf(q)["auth_date"][1]) ELSE Some(0)

CorrectlySigned(q) ==
    /\ \E i \in DOMAIN q : q[i][1] = "hash" /\ q[i][2] # None
    /\ dict(parse_qsl(q))["hash"] = Some(Sign(bot_token, ParamsOf(q)))

(* C24: a payload older than max_age is answered None, whether or not its
   hash is the correct signature; a payload without auth_date counts as
   auth_date 0. *)
C24_StalePayloadRejected ==
    (/\ IsValidate
     /\ AuthDateOf(Validated) # None
     /\ now - AuthDateOf(Validated)[1] > max_age)
    => resp.user_data = None

(* Witness: a correctly signed payload without auth_date, and with a user
   that parses, is answered None at time 2. *)
C24_Witness ==
    /\ IsValidate
    /\ now = 2
    /\ CorrectlySigned(Validated)
    /\ "auth_date" \notin DOMAIN ParamsOf(Validated)
    /\ "user" \in DOMAIN ParamsOf(Validated)
    /\ ParamsOf(Validated)["user"][1].ok
    /\ resp.user_data = None

(* The user field is absent or a JSON object. *)
UserParses(q) ==
    "user" \in DOMAIN ParamsOf(q) => ParamsOf(q)["user"][1].ok

WithinWindow(q) ==
    AuthDateOf(q) # None /\ now - AuthDateOf(q)[1] <= max_age

(* C25, as claimed: within the window a payload is answered with an identity
   exactly when its hash is the HMAC of its check-string, and no payload
   that is answered with an identity is still answered with one after a
   field other than hash is removed from it, added to it (it is then the
   payload with the field removed that is the original) or given another
   value. *)
C25_SignatureExact ==
    IsValidate =>
        /\ (WithinWindow(Validated) /\ UserParses(Validated))
           => (resp.user_data # None <=> CorrectlySigned(Validated))
        /\ resp.user_data # None
           => \A i \in DOMAIN Validated :
                 Validated[i][1] # "hash"
                 => /\ validate_init_data(RemoveAt(Validated, i)) = None
                    /\ ChangedValue(Validated[i][1]) # Validated[i][2]
                       => validate_init_data(
                              ReplaceAt(Validated, i,
                                        ChangedValue(Validated[i][1]))) = None

----------------------------------------------------------------------------
(* Properties of validate_token *)

(* C26: a request whose only credential is a token without expires_at, that
   is active and bound to an active student, is answered with that student,
   at every time and whether or not the token was used before. *)
C26_Step ==
    (resp = Idle /\ resp'.op \in {"get_current_student", "token_access"})
    => \A t \in access_tokens :
          (/\ t.token \in PresentedTokens(resp'.req)
           /\ t.expires_at = None
           /\ t.is_active
           /\ students[t.student_id])
          => resp'.student = Some(t.student_id)

C26_UnexpiringTokenAccepted == [][C26_Step]_vars

(* Witness: at the last time of the model, when the token with an expiry is
   past it, a token without expiry is accepted on a call later than its
   first use. *)
C26_Witness ==
    /\ IsResolve
    /\ now = MaxTime
    /\ \E t \in access_tokens :
          /\ resp.req.url_token = Some(t.token)
          /\ t.expires_at = None
          /\ t.last_used_at = Some(now)
          /\ resp.student = Some(t.student_id)
    /\ \E u \in access_tokens :
          /\ u.expires_at # None /\ is_expired(u)
          /\ u.last_used_at # None

(* C27: a validate_token call writes last_used_at of the row it looked up,
   and nothing else, exactly when it answers with a student; a call that
   answers invalid (token unknown, inactive, expired, student inactive,
   failed commit) changes no row of access_tokens or students. *)
C27_Step ==
    \A i \in SessionIds :
        /\ (/\ sessions'[i].op = "validate_token"
            /\ sessions[i].pc # "answered"
            /\ sessions'[i].pc = "answered")
           => /\ students' = students
              /\ IF sessions'[i].result # None
                 THEN \E t \in access_tokens :
                         /\ t.token = sessions'[i].arg[1]
                         /\ access_tokens' =
                              (access_tokens \ {t})
                              \cup {[t EXCEPT !.last_used_at = Some(now)]}
                 ELSE access_tokens' = access_tokens
        /\ (/\ sessions'[i].op = "validate_token"
            /\ sessions[i].pc = "closed"
            /\ sessions'[i].pc = "loaded")
           => UNCHANGED <<students, access_tokens>>

C27_LastUsedOnSuccessOnly == [][C27_Step]_vars

(* Witness: one call answered with the student and wrote last_used_at; a
   later call loaded the row and failed at commit, and last_used_at is what
   the first call wrote. *)
C27_Witness ==
    \E i \in SessionIds, j \in SessionIds :
        /\ sessions[i].op = "validate_token"
        /\ sessions[i].pc = "answered"
        /\ sessions[i].result # None
        /\ sessions[j].op = "validate_token"
        /\ sessions[j].pc = "answered"
        /\ sessions[j].result = None
        /\ sessions[j].row # None
        /\ sessions[j].row[1].last_used_at = Some(1)
        /\ now = 2
        /\ \E t \in access_tokens :
              t.id = sessions[j].row[1].id /\ t.last_used_at = Some(1)

(* C28: a resolution through the signed payload or the session cookies that
   selects a student sets last_auth_at on exactly the selected link and
   leaves every other link as it was, the other links of the same telegram
   id included; one that selects no student changes no link.  The steps are
   those of get_current_student without a token, and of POST /auth/telegram
   with a valid payload. *)
IsTouchStep ==
    /\ resp = Idle
    /\ \/ /\ resp'.op = "get_current_student"
          /\ resp'.req.url_token = None
          /\ resp'.req.cookie_access_token = None
       \/ /\ resp'.op = "post"
          /\ resp'.req.endpoint = "/auth/telegram"

C28_Step ==
    IsTouchStep =>
        IF resp'.student = None
        THEN telegram_auth' = telegram_auth
        ELSE \E ta \in telegram_auth :
                /\ ta.student_id = resp'.student[1]
                /\ telegram_auth' = TouchLink(ta)

C28_OnlySelectedLinkTouched == [][C28_Step]_vars

(* C29: the answer of GET /t/{token} is the same for a token that never
   existed, a revoked token, an expired token and a token of an inactive
   student: whichever of the reasons applies, the client sees the status
   401 with the one fixed text, no redirect, and no access_token cookie. *)
RefusalReasons(token) ==
    LET rows == {t \in access_tokens : t.token = token}
    IN  (IF rows = {} THEN {"never_existed"} ELSE {})
        \cup (IF \E t \in rows : ~t.is_active THEN {"revoked"} ELSE {})
        \cup (IF \E t \in rows : t.expires_at # None /\ now > t.expires_at[1]
              THEN {"expired"} ELSE {})
        \cup (IF \E t \in rows : ~students[t.student_id]
              THEN {"inactive_student"} ELSE {})

ClientView(r) ==
    [status |-> r.status, body |-> r.body, location |-> r.location,
     set_access_token |-> r.set_access_token]

AccessDenied ==
    [status |-> 401, body |-> InvalidTokenText, location |-> None,
     set_access_token |-> None]

C29_RefusalUniform ==
    (resp.op = "token_access"
        /\ RefusalReasons(resp.req.path_token[1]) # {})
    => ClientView(resp) = AccessDenied

(* Witness: a token that never existed was refused, and now the revoked
   token tokA, unexpired and of an active student, is refused. *)
C29_Witness ==
    /\ resp.op = "token_access"
    /\ resp.req.path_token = Some("tokA")
    /\ RefusalReasons("tokA") = {"revoked"}
    /\ ClientView(resp) = AccessDenied
    /\ Len(access_logs) = 2
    /\ access_logs[1].auth_identifier = "zzz"
    /\ ~access_logs[1].success
    /\ RefusalReasons("zzz") = {"never_existed"}

(* C21: the table access_logs is append-only: every step of a handler, of
   the resolver or of the operator leaves each row that is there in its
   place and unchanged; rows are only added behind them. *)
C21_Step ==
    /\ Len(access_logs) <= Len(access_logs')
    /\ \A i \in DOMAIN access_logs : access_logs'[i] = access_logs[i]

C21_AppendOnly == [][C21_Step]_vars

(* Witness: two rows written by different handlers, the first for student 1
   through the token tokA; afterwards the token was revoked and the student
   deactivated, and the row is as it was written. *)
C21_Witness ==
    /\ Len(access_logs) = 2
    /\ access_logs[1] = [student_id |-> Some(1), auth_method |-> "token",
                         auth_identifier |-> "tokA", success |-> TRUE,
                         error_message |-> ""]
    /\ access_logs[2].auth_method = "telegram"
    /\ ~students[1]
    /\ \A t \in access_tokens : t.token = "tokA" => ~t.is_active

(* C30: when the client receives the answer of a POST /auth/logout that
   passed require_csrf, none of the cookies access_token, telegram_id and
   selected_student_id is left in its jar, whatever the jar held; and a
   request that carries none of the three cookies, no URL token and no
   payload header is answered Unauthenticated. *)
IsLogoutAnswer(r) ==
    r.op = "post" /\ r.req.endpoint = "/auth/logout" /\ r.status = 200

C30_ClearStep ==
    (IsLogoutAnswer(resp) /\ resp' = Idle) => jar' = EmptyJar

C30_NextStep ==
    (/\ resp = Idle
     /\ jar = EmptyJar
     /\ resp'.op = "get_current_student"
     /\ resp'.req = JarRequest(jar))
    => resp'.student = None /\ ~resp'.raised

C30_LogoutEndsSession == [][C30_ClearStep /\ C30_NextStep]_vars

(* Witness: the client signed in through Telegram (the audit table has the
   row), the link it signed in with and the token are still good, its jar
   is empty again, and its request without credentials is answered
   Unauthenticated. *)
C30_Witness ==
    /\ resp.op = "get_current_student"
    /\ resp.req = NoRequest
    /\ resp.student = None
    /\ jar = EmptyJar
    /\ \E i \in DOMAIN access_logs :
          /\ access_logs[i].auth_method = "telegram"
          /\ access_logs[i].success
          /\ \E ta \in telegram_auth :
                /\ ta.is_active
                /\ Some(ta.student_id) = access_logs[i].student_id
                /\ students[ta.student_id]
    /\ \E t \in access_tokens : t.is_active /\ ~is_expired(t)

(* C31: POST /auth/telegram with a valid payload of a telegram id that has
   two or more active links to active students answers success with
   multiple_students, lists exactly the students of those links, each once,
   and sets no cookie. *)
LinksToActiveStudents(telegram_id) ==
    {ta \in telegram_auth :
        /\ ta.telegram_id = telegram_id
        /\ ta.is_active
        /\ students[ta.student_id]}

C31_MultipleStudentsListed ==
    \A t \in TelegramIds :
        (/\ IsPost
         /\ resp.req.endpoint = "/auth/telegram"
         /\ ValidPayloadFor(resp.req, t)
         /\ Cardinality(LinksToActiveStudents(t)) >= 2)
        => /\ resp.status = 200
           /\ resp.success
           /\ resp.multiple_students
           /\ Len(resp.students) = Cardinality(LinksToActiveStudents(t))
           /\ {resp.students[i] : i \in DOMAIN resp.students}
                 = {ta.student_id : ta \in LinksToActiveStudents(t)}
           /\ resp.set_cookies = {}
           /\ resp.student = None

(* Witness: both students are linked to "555" and offered. *)
C31_Witness ==
    /\ IsPost
    /\ resp.req.endpoint = "/auth/telegram"
    /\ ValidPayloadFor(resp.req, "555")
    /\ Cardinality(LinksToActiveStudents("555")) = 2
    /\ resp.multiple_students
    /\ Len(resp.students) = 2
    /\ resp.set_cookies = {}

(* C32: POST /admin/login is counted by login_rate_limiter alone.  In every
   rolling 60 s window at most login_requests_per_minute submissions of an
   address are admitted, a submission is refused exactly when that many were
   admitted in the 60 s before it, and the two limiters are separate: a
   request that is counted by rate_limiter, or by neither, leaves the dict
   of login_rate_limiter as it is, and a submission leaves the dict of
   rate_limiter as it is. *)
LoginAdmittedInWindow(ip) ==
    Len(Recent(login_rate_limiter.admitted[ip], clock - window))

IsLoginCheck ==
    /\ checked # None
    /\ "limiter" \in DOMAIN checked[1]
    /\ checked[1].limiter = "login_rate_limiter"

C32_Capacity ==
    /\ \A ip \in Ips : LoginAdmittedInWindow(ip) <= login_requests_per_minute
    /\ (IsLoginCheck /\ checked[1].at = clock)
       => IF checked[1].status = Some(429)
          THEN LoginAdmittedInWindow(checked[1].ip) = login_requests_per_minute
          ELSE LET times == login_rate_limiter.admitted[checked[1].ip]
               IN  times # <<>> /\ times[Len(times)] = clock

C32_Step ==
    /\ requests' # requests => login_rate_limiter' = login_rate_limiter
    /\ login_rate_limiter'.requests # login_rate_limiter.requests
       => /\ requests' = requests
          /\ admitted' = admitted
          /\ \/ login_rate_limiter'.swept_at = clock
             \/ /\ checked' # None
                /\ "limiter" \in DOMAIN checked'[1]
                /\ checked'[1].limiter = "login_rate_limiter"
                /\ checked'[1].at = clock

C32_StrictLimiter == []C32_Capacity /\ [][C32_Step]_vars

(* Witness: in a window after the first, a submission of an address is
   refused by the strict limiter while rate_limiter has admitted a request
   of the same address in the window and has capacity left. *)
C32_Witness ==
    /\ IsLoginCheck
    /\ checked[1].status = Some(429)
    /\ checked[1].at = clock
    /\ checked[1].ip = "10.0.0.1"
    /\ clock >= window
    /\ login_rate_limiter.admitted["10.0.0.1"][1] = clock
    /\ AdmittedInWindow("10.0.0.1") >= 1
    /\ AdmittedInWindow("10.0.0.1") < requests_per_minute

AllSsl(outcomes) == \A i \in 1..Len(outcomes) : outcomes[i] = "ssl"

ButLast(outcomes) == SubSeq(outcomes, 1, Len(outcomes) - 1)

FetchDone == sheets_manager.call.pc \in {"returned", "raised"}

(* The cache holds nothing that the call created or replaced. *)
CacheNotWritten ==
    \A k \in DOMAIN sheets_manager.cache :
        /\ k \in DOMAIN sheets_manager.call.cache_before
        /\ sheets_manager.cache[k] = sheets_manager.call.cache_before[k]

C33_Policy ==
    LET call == sheets_manager.call
        n == Len(call.outcomes)
    IN  /\ n <= MAX_RETRIES
        /\ Len(call.slept) = call.attempt
        /\ \A i \in 1..Len(call.slept) :
              call.slept[i] = RETRY_BACKOFF_FACTOR ^ (i - 1)
        /\ call.pc = "fetching" =>
              /\ AllSsl(call.outcomes)
              /\ n = call.attempt
              /\ n < MAX_RETRIES
              /\ n > 0 => sheets_manager.client = None
        /\ call.pc = "raised" =>
              /\ n > 0
              /\ AllSsl(ButLast(call.outcomes))
              /\ call.attempt = n - 1
              /\ \/ call.outcomes[n] = "other"
                 \/ call.outcomes[n] = "ssl" /\ n = MAX_RETRIES
              /\ call.result = None
              /\ CacheNotWritten
        /\ call.pc = "returned" /\ n > 0 =>
              /\ AllSsl(ButLast(call.outcomes))
              /\ call.outcomes[n] = "ok"

(* C33: _fetch_with_retry ends after at most MAX_RETRIES attempts.  Every
   SSL error but the third is followed by a sleep of
   RETRY_BACKOFF_FACTOR ^ attempt seconds with the client reset to None, the
   third SSL error in a row is raised, any other exception is raised at
   once, and a call that raises leaves the cache without any entry it
   created or replaced. *)
C33_RetryTerminates ==
    /\ []C33_Policy
    /\ (sheets_manager.call.pc = "fetching") ~> FetchDone

C33_Witness ==
    /\ sheets_manager.call.pc = "raised"
    /\ sheets_manager.call.outcomes = <<"ssl", "ssl", "ssl">>
    /\ sheets_manager.call.slept = <<1, 2>>
    /\ sheets_manager.call.use_cache
    /\ cache_key("boris") \in DOMAIN sheets_manager.cache
    /\ cache_key(sheets_manager.call.worksheet_name)
          \in DOMAIN sheets_manager.call.cache_before

(* The stored timestamps of an address that a check at this instant counts. *)
Counted(times) == Recent(times, clock - window)

C34_SameDecision ==
    /\ (checked # None /\ "unswept_status" \in DOMAIN checked[1])
       => checked[1].status = checked[1].unswept_status
    /\ \A ip \in Ips : Counted(RequestsOf(ip)) = Counted(unswept[ip])

C34_SweepStep ==
    swept_at' # swept_at
    => \A ip \in Ips :
          /\ RequestsOf(ip)' = Recent(RequestsOf(ip), clock - sweep_window)
          /\ ip \in DOMAIN requests /\ ip \notin DOMAIN requests'
             => Recent(requests[ip], clock - sweep_window) = <<>>
          /\ unswept[ip]' = unswept[ip]

(* C34: the sweep changes no admission decision.  A pass removes only the
   timestamps older than 2 minutes and the addresses left empty by that,
   and every call of check_rate_limit has the outcome that the same call
   has on a limiter that received the same calls and was never swept. *)
C34_SweepChangesNoDecision ==
    /\ []C34_SameDecision
    /\ [][C34_SweepStep]_vars

C34_Witness ==
    /\ checked # None
    /\ checked[1].at = clock
    /\ checked[1].status = Some(429)
    /\ checked[1].unswept_status = Some(429)
    /\ swept_at > 0
    /\ \E ip \in Ips : ip \notin DOMAIN requests /\ unswept[ip] # <<>>

(* The selected_student_id cookie is absent, empty, zero or not a digit
   string. *)
SelectionUnusable(selected_str) ==
    \/ selected_str = None
    \/ selected_str[1] = <<>>
    \/ ~isdigit(selected_str[1])
    \/ int(selected_str[1]) = Some(0)

(* C36: without URL token and payload, a telegram_id cookie whose
   selected_student_id cookie is absent, empty, zero or not a digit string
   does not end the resolution: the request is resolved through the
   access_token cookie, to the student of the token when the token is
   acceptable and to nobody otherwise. *)
C36_FallsToAccessToken ==
    (/\ IsResolve
     /\ NoUrlToken(resp.req)
     /\ resp.req.init_data = None
     /\ TruthyStr(resp.req.cookie_telegram_id)
     /\ SelectionUnusable(resp.req.cookie_selected_student_id))
    => /\ ~resp.raised
       /\ IF /\ TruthyStr(resp.req.cookie_access_token)
             /\ TokenAcceptable(resp.req.cookie_access_token[1])
          THEN /\ resp.student # None
               /\ \E t \in TokenRows(resp.req.cookie_access_token[1]) :
                     t.is_active /\ resp.student = Some(t.student_id)
               /\ resp.auth # None
               /\ resp.auth[1].auth_method = "token"
          ELSE resp.student = None

C36_Witness ==
    /\ IsResolve
    /\ resp.req.url_token = None
    /\ resp.req.init_data = None
    /\ resp.req.cookie_telegram_id = Some("555")
    /\ resp.req.cookie_selected_student_id = Some(<<"0">>)
    /\ resp.req.cookie_access_token = Some("tokA")
    /\ resp.student = Some(1)
    /\ \E ta \in telegram_auth :
          ta.telegram_id = "555" /\ ta.is_active /\ students[ta.student_id]

(* C37, as claimed: a response sets the cookie telegram_id=t only when the
   request proved t by a payload that validates or already carried t in its
   telegram_id cookie; a telegram id that is only in the body of the request
   gets no session. *)
C37_SessionOnlyForProvenId ==
    IsPost
    => \A c \in resp.set_cookies :
          c[1] = "telegram_id"
          => \/ ValidPayloadFor(resp.req, c[2])
             \/ resp.req.cookie_telegram_id = Some(c[2])

(* C39, as claimed: no telegram id has a row in pending_telegram_links and
   an active row in telegram_auth at the same time. *)
C39_PendingOnlyWithoutActiveLink ==
    \A p \in pending_links :
        ~\E ta \in telegram_auth :
            ta.telegram_id = p.telegram_id /\ ta.is_active

(* The jar holds the session cookies of telegram_id and student_id. *)
JarSession(telegram_id, student_id) ==
    /\ jar.telegram_id = Some(telegram_id)
    /\ jar.selected_student_id = Some(str(student_id))

(* The session cookies of the jar were given for a sign-in that the audit
   table records. *)
C38_JarFromSignIn ==
    jar.telegram_id # None
    => \E i \in DOMAIN access_logs, s \in StudentIds :
          /\ access_logs[i].success
          /\ access_logs[i].auth_method = "telegram"
          /\ access_logs[i].student_id = Some(s)
          /\ JarSession(access_logs[i].auth_identifier, s)

(* The client stores the cookies of a successful sign-in. *)
C38_ReceiveStep ==
    (resp.op = "post" /\ resp.success /\ resp.student # None /\ resp' = Idle)
    => \E t \in TelegramIds, s \in StudentIds :
          /\ \/ ValidPayloadFor(resp.req, t)
             \/ resp.req.cookie_telegram_id = Some(t)
          /\ resp.student = Some(s)
          /\ \E ta \in LinkRows(t, s) : ta.is_active
          /\ JarSession(t, s)'

(* A page request with these cookies names the student of the sign-in. *)
C38_ResolveStep ==
    (/\ resp = Idle
     /\ resp'.op = "get_current_student"
     /\ resp'.req = JarRequest(jar))
    => \A t \in TelegramIds, s \in StudentIds :
          (/\ JarSession(t, s)
           /\ jar.access_token = None
           /\ students[s]
           /\ \E ta \in LinkRows(t, s) : ta.is_active)
          => /\ resp'.student = Some(s)
             /\ ~resp'.raised

(* C38: after POST /auth/telegram succeeded for a telegram id with one
   active link, or POST /auth/select-student succeeded, a request that
   carries only the cookies of that response, without URL token and payload
   header, is resolved to the same student for as long as the link and the
   student stay active. *)
C38_SessionLasts ==
    /\ []C38_JarFromSignIn
    /\ [][C38_ReceiveStep /\ C38_ResolveStep]_vars

C38_Witness ==
    /\ IsResolve
    /\ resp.req = JarRequest(jar)
    /\ JarSession("555", 2)
    /\ resp.student = Some(2)
    /\ now > 1
    /\ Cardinality({ta \in telegram_auth : ta.telegram_id = "555"}) = 1
    /\ Len(access_logs) = 2

(* A step of check_rate_limit of rate_limiter: neither the clock nor the
   sweep moves. *)
IsGeneralCheck ==
    /\ clock' = clock
    /\ swept_at' = swept_at
    /\ login_rate_limiter' = login_rate_limiter
    /\ checked' # None
    /\ "unswept_status" \in DOMAIN checked'[1]

C35_Step ==
    IsGeneralCheck
    => \A ip \in {i \in Ips : i = checked'[1].ip} :
       LET stored == RequestsOf(ip)
       IN  /\ Len(RequestsOf(ip)') <= requests_per_minute
           /\ checked'[1].status = Some(429)
              => /\ RequestsOf(ip)' = Counted(stored)
                 /\ Len(Counted(stored)) = requests_per_minute
           /\ (/\ stored # <<>>
               /\ Len(stored) <= requests_per_minute
               /\ stored[1] <= clock - window)
              => /\ checked'[1].status = None
                 /\ RequestsOf(ip)' = Append(Counted(stored), clock)

(* C35: a call of check_rate_limit that is refused records no timestamp.
   After every call the list of the address holds at most
   requests_per_minute entries, a refused call leaves exactly the entries
   of the last 60 s, and a call is admitted as soon as the oldest entry of
   the list has left the window, however many calls were refused before. *)
C35_RefusedNotRecorded == [][C35_Step]_vars

C35_Witness ==
    /\ checked # None
    /\ "unswept_status" \in DOMAIN checked[1]
    /\ checked[1].status = Some(429)
    /\ checked[1].at = clock
    /\ clock >= 1
    /\ Len(RequestsOf(checked[1].ip)) = requests_per_minute
    /\ RequestsOf(checked[1].ip)[1] = clock - window + 1
    /\ RequestsOf(checked[1].ip)[requests_per_minute] = clock

====
